---- MODULE Spec2Model ----
(***************************************************************************)
(* Room session engine of the poker-planning server: the room records in   *)
(* the shared store (server/storage.ts), the request handlers and the      *)
(* subscriber fan-out (server/index.ts) and the periodic cleanup.          *)
(*                                                                         *)
(* Every handler is split at its awaits: one action per store operation,   *)
(* so that handlers, subscriptions and the cleanup interleave as they do   *)
(* on the event loop and across server processes.                          *)
(***************************************************************************)
EXTENDS Integers, Sequences, FiniteSets, TLC

(***************************************************************************)
(* Program constants                                                       *)
(***************************************************************************)
SESSION_DURATION == 2 * 60 * 60 * 1000
INACTIVITY_TIMEOUT == 5 * 60 * 1000
CLEANUP_INTERVAL == 60 * 1000
ROOM_TTL == 2 * 60 * 60
EMPTY_ROOM_GRACE_PERIOD == 5 * 60 * 1000
KEEPALIVE_SLEEP == 30000

(***************************************************************************)
(* Bounds of the model                                                     *)
(***************************************************************************)
\* The clock runs from 0 to MaxClockSteps inactivity timeouts.
MaxClockSteps == 2
\* At most this many handlers, subscription steps and cleanup cycles are
\* between two of their awaits at the same time.
MaxInFlight == 2

(***************************************************************************)
(* Values                                                                  *)
(***************************************************************************)
\* JavaScript null / undefined.
Null == [null |-> TRUE]

\* A vote is a number, a string or null.
Num(n) == <<"num", n>>
Str(s) == <<"str", s>>
NoVote == <<"null">>

VALID_VOTES ==
  { Num(1), Num(2), Num(3), Num(5), Num(8), Num(13), Num(21), Num(34),
    Num(55), Num(89), Str("?"), Str("coffee") }

\* A validation that lets every value through.
isValidVoteAny(value) == TRUE

\* A validation that takes the values of the vote set only.
isValidVoteListed(value) == value \in VALID_VOTES

isValidVote(value) == value \in VALID_VOTES \/ value = NoVote

\* Strings that the code inspects are sequences of characters.
Lowers == << "a", "b", "c", "d", "e", "f", "g", "h", "i", "j", "k", "l", "m",
             "n", "o", "p", "q", "r", "s", "t", "u", "v", "w", "x", "y", "z" >>
Uppers == << "A", "B", "C", "D", "E", "F", "G", "H", "I", "J", "K", "L", "M",
             "N", "O", "P", "Q", "R", "S", "T", "U", "V", "W", "X", "Y", "Z" >>
Digits == { "0", "1", "2", "3", "4", "5", "6", "7", "8", "9" }

Range(s) == { s[i] : i \in DOMAIN s }

\* The characters of /^[A-Z0-9]{6}$/.
CodeChars == Range(Uppers) \cup Digits

LowerChar(ch) ==
  IF \E i \in DOMAIN Uppers : Uppers[i] = ch
    THEN Lowers[CHOOSE i \in DOMAIN Uppers : Uppers[i] = ch]
    ELSE ch

UpperChar(ch) ==
  IF \E i \in DOMAIN Lowers : Lowers[i] = ch
    THEN Uppers[CHOOSE i \in DOMAIN Lowers : Lowers[i] = ch]
    ELSE ch

toLowerCase(s) == [i \in DOMAIN s |-> LowerChar(s[i])]
toUpperCase(s) == [i \in DOMAIN s |-> UpperChar(s[i])]

isValidName(name) == Len(name) > 0 /\ Len(name) <= 50

isValidRoomCode(code) ==
  Len(code) = 6 /\ \A i \in DOMAIN code : code[i] \in CodeChars

(***************************************************************************)
(* Map<string, Member>: a sequence of <<key, value>> entries in insertion  *)
(* order, with no two entries under the same key.                          *)
(***************************************************************************)
MapHas(m, k) == \E i \in DOMAIN m : m[i][1] = k
MapIndex(m, k) == CHOOSE i \in DOMAIN m : m[i][1] = k
MapGet(m, k) == m[MapIndex(m, k)][2]
MapSet(m, k, v) ==
  IF MapHas(m, k)
    THEN [m EXCEPT ![MapIndex(m, k)] = <<k, v>>]
    ELSE Append(m, <<k, v>>)
MapDelete(m, k) == SelectSeq(m, LAMBDA e : e[1] # k)
MapKeys(m) == { m[i][1] : i \in DOMAIN m }
MapValues(m) == [i \in DOMAIN m |-> m[i][2]]
MapSize(m) == Len(m)

RECURSIVE NewMap(_)
NewMap(entries) ==
  IF entries = <<>>
    THEN <<>>
    ELSE LET n == Len(entries)
         IN  MapSet(NewMap(SubSeq(entries, 1, n - 1)), entries[n][1], entries[n][2])

(***************************************************************************)
(* Rooms and their stored form                                             *)
(***************************************************************************)
Member(id, name, vote, lastActivity) ==
  [id |-> id, name |-> name, vote |-> vote, lastActivity |-> lastActivity]

\* A serialization that hands the room itself to JSON.stringify, which
\* writes a Map as an empty object: the members are lost.
serializeRoomDirect(room) ==
  [ code |-> room.code,
    members |-> << >>,
    showResults |-> room.showResults,
    createdAt |-> room.createdAt ]

serializeRoom(room) ==
  [ code |-> room.code,
    members |-> [i \in DOMAIN room.members |-> room.members[i]],
    showResults |-> room.showResults,
    createdAt |-> room.createdAt ]

deserializeRoom(data) ==
  [ code |-> data.code,
    members |-> NewMap(data.members),
    showResults |-> data.showResults,
    createdAt |-> data.createdAt ]

\* The state sent to the clients of a room.
Hidden == Str("hidden")

\* Mutation: the vote is passed on whatever the flag says.
VisibleVoteLeak(showResults, vote) == vote

VisibleVote(showResults, vote) ==
  IF showResults THEN vote ELSE IF vote # NoVote THEN Hidden ELSE NoVote

getRoomState(room) ==
  [ code |-> room.code,
    members |->
      [ i \in DOMAIN room.members |->
          LET m == room.members[i][2]
          IN  [ id |-> m.id, name |-> m.name,
                vote |-> VisibleVote(room.showResults, m.vote) ] ],
    showResults |-> room.showResults ]

\* Mutation: the names are compared as they are written.
nameExistsExact(room, name) ==
  \E i \in DOMAIN room.members : room.members[i][2].name = name

nameExists(room, name) ==
  \E i \in DOMAIN room.members :
    toLowerCase(room.members[i][2].name) = toLowerCase(name)

\* Mutation: the votes are left as they are.
ResetRoomFlagOnly(room) == [room EXCEPT !.showResults = FALSE]

\* POST /rooms/:code/reset: showResults off and every vote cleared.
ResetRoom(room) ==
  [ room EXCEPT
      !.showResults = FALSE,
      !.members =
        [ i \in DOMAIN room.members |->
            <<room.members[i][1], [room.members[i][2] EXCEPT !.vote = NoVote]>> ] ]

\* Touch(room, id, t): member.lastActivity = Date.now().
Touch(room, id, t) ==
  [ room EXCEPT
      !.members = MapSet(@, id, [MapGet(@, id) EXCEPT !.lastActivity = t]) ]

(***************************************************************************)
(* Inputs                                                                  *)
(***************************************************************************)
CodeA == << "A", "B", "C", "2", "3", "4" >>

\* generateRoomCode: the alphabet and the code of six draws, each draw an
\* index Math.floor(Math.random() * chars.length).
chars == << "A", "B", "C", "D", "E", "F", "G", "H", "J", "K", "L", "M", "N", "P", "Q", "R",
           "S", "T", "U", "V", "W", "X", "Y", "Z", "2", "3", "4", "5", "6", "7", "8", "9" >>
generateRoomCode(draws) == [i \in 1..6 |-> chars[draws[i] + 1]]

\* The draws of a second code, the last characters of the alphabet among
\* them.
DrawsB == << 9, 10, 11, 29, 30, 31 >>
CodeB == generateRoomCode(DrawsB)
\* The codes generateRoomCode draws from.
RoomCodes == { CodeA }
\* The :code path parameter of a request: a code typed in lower case, and a
\* string that is no room code.
CodeParams == { toLowerCase(CodeA), << "a", "b" >> }
StoreKeys == RoomCodes \cup { toUpperCase(c) : c \in CodeParams } \cup { CodeB }

NoSession == "none"
SessionIds == { "s1", "s2" }
Cookies == SessionIds \cup { NoSession }

NameInputs == { << "A" >>, << "a" >>, << "B" >>, << >> }
VoteInputs == { Num(5), Num(8), NoVote, Num(4) }

Procs == { "p1", "p2" }
Slots == { "r1", "r2" }
SubIds == { "u1" }


(***************************************************************************)
(* State                                                                   *)
(***************************************************************************)
VARIABLES
  now,          \* Date.now(), in milliseconds
  store,        \* the store: key -> serialized room, or Null
  expireAt,     \* the store: key -> the time at which the key expires
  roomClients,  \* per process: Map from room code to the set of sinks
  reqs,         \* the request handlers between two awaits
  subs,         \* the subscription streams
  reaper,       \* the cleanup cycle
  resp,         \* the response sent last
  acked,        \* <<code, id>> of the members whose join was answered with success
                \* and who were not removed, evicted, deleted or expired since
  cast          \* <<code, id>> -> the value of the last vote of the member that
                \* was answered with success since the join and the last reset

\* No response is sent by the step.
NoResponse == [op |-> "none", status |-> 0, error |-> "", sid |-> NoSession]

vars == << now, store, expireAt, roomClients, reqs, subs, reaper, resp, acked, cast >>

Idle == [kind |-> "idle"]
Closed == [pc |-> "closed", aborted |-> FALSE]
ReaperIdle ==
  [ pc |-> "idle", now |-> 0, keys |-> {}, key |-> << >>,
    read |-> Null, room |-> Null, ttl |-> 0, error |-> FALSE ]
EmptyMap == [c \in {} |-> {}]

Init ==
  /\ now = 0
  /\ store = [k \in StoreKeys |-> Null]
  /\ expireAt = [k \in StoreKeys |-> 0]
  /\ roomClients = [p \in Procs |-> EmptyMap]
  /\ reqs = [r \in Slots |-> Idle]
  /\ subs = [u \in SubIds |-> Closed]
  /\ reaper = ReaperIdle
  /\ resp = NoResponse
  /\ acked = {}
  /\ cast = [a \in StoreKeys \X SessionIds |-> NoVote]

(***************************************************************************)
(* The store (storage.ts over the key-value store)                         *)
(***************************************************************************)
getRoom(code) == IF store[code] = Null THEN Null ELSE deserializeRoom(store[code])

roomExists(code) == store[code] # Null

\* TTL key: -2 for a missing key, else the remaining time in seconds.
redisTtl(key) ==
  IF store[key] = Null THEN 0 - 2 ELSE (expireAt[key] - now + 500) \div 1000

\* updateRoom after its TTL read: keep the remaining expiry or use the default.
expiryTime(ttl) == IF ttl > 0 THEN ttl ELSE ROOM_TTL

\* A merging write: the record is stored with the showResults flag of the
\* record the key holds.
SetexMerged(key, seconds, data) ==
  /\ store' = [store EXCEPT ![key] =
                 IF store[key] = Null THEN data
                 ELSE serializeRoom([deserializeRoom(data) EXCEPT
                                       !.showResults = deserializeRoom(store[key]).showResults])]
  /\ expireAt' = [expireAt EXCEPT ![key] = now + seconds * 1000]

\* SETEX key seconds value
Setex(key, seconds, data) ==
  /\ store' = [store EXCEPT ![key] = data]
  /\ expireAt' = [expireAt EXCEPT ![key] = now + seconds * 1000]

\* DEL key
Del(key) ==
  /\ store' = [store EXCEPT ![key] = Null]
  /\ UNCHANGED expireAt

(***************************************************************************)
(* Scheduling                                                              *)
(***************************************************************************)
SubBusyPcs == { "ttl", "setex", "open", "write", "kttl", "ksetex" }

InFlight ==
  Cardinality({ r \in Slots : reqs[r] # Idle })
    + Cardinality({ u \in SubIds : subs[u].pc \in SubBusyPcs })
    + (IF reaper.pc # "idle" THEN 1 ELSE 0)

\* The response of a step reaches its client before the next step is taken.
Ready == resp = NoResponse

Observe ==
  /\ ~Ready
  /\ resp' = NoResponse
  /\ UNCHANGED << now, store, expireAt, roomClients, reqs, subs, reaper, acked, cast >>

CanStart == Ready /\ InFlight < MaxInFlight /\ \E r \in Slots : reqs[r] = Idle

\* Time passes; keys whose expiry is reached are gone.
Pass(d) ==
  /\ Ready
  /\ now' = now + d
  /\ store' = [k \in StoreKeys |->
                 IF store[k] # Null /\ expireAt[k] <= now + d THEN Null ELSE store[k]]
  /\ acked' = { a \in acked : ~(expireAt[a[1]] <= now + d) }
  /\ resp' = NoResponse
  /\ UNCHANGED << expireAt, roomClients, reqs, subs, reaper, cast >>

\* Time passes within the horizon of MaxClockSteps inactivity timeouts.
Advance(d) == now + d <= MaxClockSteps * INACTIVITY_TIMEOUT /\ Pass(d)

Response(op, status, error, sid) ==
  [op |-> op, status |-> status, error |-> error, sid |-> sid]

\* An answer that comes with the room records dropped from the store.
ReplyAndDrop(op, status, error, sid) ==
  /\ resp' = Response(op, status, error, sid)
  /\ store' = [k \in StoreKeys |-> Null]
  /\ UNCHANGED << now, expireAt, roomClients, reqs, subs, reaper, acked, cast >>

\* A handler that answers without writing: nothing but the response changes.
Reply(op, status, error, sid) ==
  /\ resp' = Response(op, status, error, sid)
  /\ UNCHANGED << now, store, expireAt, roomClients, reqs, subs, reaper, acked, cast >>

\* A handler that has changed its copy of the room to `room` and now awaits
\* storage.updateRoom(room); `arg` is the member a removal takes out or the
\* value of a vote.
Request(kind, p, code, sid, arg, room) ==
  [ kind |-> kind, pc |-> "ttl", proc |-> p, code |-> code, sid |-> sid,
    arg |-> arg, room |-> room, ttl |-> 0 ]

\* A new handler takes the first free slot.
FreeSlot == CHOOSE r \in Slots : reqs[r] = Idle

Begin(kind, p, code, sid, arg, room) ==
  /\ reqs' = [reqs EXCEPT ![FreeSlot] = Request(kind, p, code, sid, arg, room)]
  /\ resp' = NoResponse
  /\ UNCHANGED << now, store, expireAt, roomClients, subs, reaper, acked, cast >>

(***************************************************************************)
(* POST /rooms                                                             *)
(***************************************************************************)
NewRoom(code, t) ==
  [code |-> code, members |-> << >>, showResults |-> FALSE, createdAt |-> t]

\* generateRoomCode: draw a code, draw again while the store has it; then
\* createRoom builds the record and issues its SETEX.
CreateDraw(r, p, code) ==
  /\ \/ reqs[r] = Idle /\ CanStart /\ r = FreeSlot
     \/ reqs[r] # Idle /\ reqs[r].kind = "create" /\ reqs[r].pc = "gen"
                       /\ reqs[r].proc = p /\ Ready
  /\ reqs' = [reqs EXCEPT ![r] =
                IF roomExists(code)
                  THEN [ Request("create", p, code, NoSession, NoSession, Null)
                           EXCEPT !.pc = "gen" ]
                  ELSE [ Request("create", p, code, NoSession, NoSession, NewRoom(code, now))
                           EXCEPT !.pc = "create" ]]
  /\ resp' = NoResponse
  /\ UNCHANGED << now, store, expireAt, roomClients, subs, reaper, acked, cast >>

CreateSetex(r) ==
  /\ Ready
  /\ reqs[r] # Idle /\ reqs[r].kind = "create" /\ reqs[r].pc = "create"
  /\ Setex(reqs[r].code, ROOM_TTL, serializeRoom(reqs[r].room))
  /\ reqs' = [reqs EXCEPT ![r].pc = "stat"]
  /\ resp' = NoResponse
  /\ UNCHANGED << now, roomClients, subs, reaper, acked, cast >>

\* After the statistics counter: roomClients.set(code, new Set()) and the answer.
CreateDone(r) ==
  /\ Ready
  /\ reqs[r] # Idle /\ reqs[r].kind = "create" /\ reqs[r].pc = "stat"
  /\ roomClients' =
       [roomClients EXCEPT ![reqs[r].proc] =
          [c \in DOMAIN @ \cup { reqs[r].code } |-> IF c = reqs[r].code THEN {} ELSE @[c]]]
  /\ reqs' = [reqs EXCEPT ![r] = Idle]
  /\ resp' = Response("create", 200, "", NoSession)
  /\ UNCHANGED << now, store, expireAt, subs, reaper, acked, cast >>

(***************************************************************************)
(* POST /rooms/:code/join                                                  *)
(***************************************************************************)
\* crypto.randomUUID(): an id that no member, handler, stream or cookie holds.
IdsInUse ==
  UNION { IF store[k] = Null THEN {} ELSE MapKeys(getRoom(k).members) : k \in StoreKeys }
    \cup { reqs[r].sid : r \in { x \in Slots : reqs[x] # Idle } }
    \cup { subs[u].sid : u \in { x \in SubIds : subs[x] # Closed } }
    \cup { a[2] : a \in acked }

generateSessionId == SessionIds \ IdsInUse

\* A join that also starts a new round.
JoinMemberAndHide(room, sessionId, name, t) ==
  [ room EXCEPT !.members = MapSet(@, sessionId, Member(sessionId, name, NoVote, t)),
                !.showResults = FALSE ]

\* A join that adds its entry after the entries the room has.
JoinMemberAppend(room, sessionId, name, t) ==
  [room EXCEPT !.members = Append(@, << sessionId, Member(sessionId, name, NoVote, t) >>)]

JoinMember(room, sessionId, name, t) ==
  [room EXCEPT !.members = MapSet(@, sessionId, Member(sessionId, name, NoVote, t))]

Join(p, codeParam, cookie, name) ==
  LET code == toUpperCase(codeParam)
      room == getRoom(code)
  IN  /\ CanStart
      /\ IF ~isValidRoomCode(code)
           THEN Reply("join", 400, "InvalidCode", cookie)
         ELSE IF ~isValidName(name)
           THEN Reply("join", 400, "InvalidName", cookie)
         ELSE IF room = Null
           THEN Reply("join", 404, "RoomNotFound", cookie)
         ELSE IF nameExists(room, name)
           THEN Reply("join", 409, "NameConflict", cookie)
         ELSE \E sessionId \in (IF cookie # NoSession THEN { cookie } ELSE generateSessionId) :
                Begin("join", p, code, sessionId, NoSession,
                      JoinMember(room, sessionId, name, now))

(***************************************************************************)
(* POST /rooms/:code/vote, /reveal, /reset, DELETE /rooms/:code/members/:id *)
(***************************************************************************)
\* Mutation: the activity is refreshed and the value is dropped.
VoteMemberTouchOnly(room, sessionId, value, t) ==
  [ room EXCEPT
      !.members = MapSet(@, sessionId, [MapGet(@, sessionId) EXCEPT !.lastActivity = t]) ]

VoteMember(room, sessionId, value, t) ==
  [ room EXCEPT
      !.members = MapSet(@, sessionId,
                         [MapGet(@, sessionId) EXCEPT !.vote = value, !.lastActivity = t]) ]

Vote(p, codeParam, cookie, value) ==
  LET code == toUpperCase(codeParam)
      room == getRoom(code)
  IN  /\ CanStart
      /\ IF ~isValidRoomCode(code)
           THEN Reply("vote", 400, "InvalidCode", cookie)
         ELSE IF ~isValidVote(value)
           THEN Reply("vote", 400, "InvalidVote", cookie)
         ELSE IF room = Null
           THEN Reply("vote", 404, "RoomNotFound", cookie)
         ELSE IF cookie = NoSession
           THEN Reply("vote", 401, "Unauthenticated", cookie)
         ELSE IF ~MapHas(room.members, cookie)
           THEN Reply("vote", 403, "NotAMember", cookie)
         ELSE Begin("vote", p, code, cookie, value, VoteMember(room, cookie, value, now))

\* Mutation: the flag is toggled.
RevealRoomToggle(room) == [room EXCEPT !.showResults = ~@]

RevealRoom(room) == [room EXCEPT !.showResults = TRUE]

\* A reveal that does not ask who calls.
RevealUnguarded(p, codeParam, cookie) ==
  LET code == toUpperCase(codeParam)
      room == getRoom(code)
  IN  /\ CanStart
      /\ IF room = Null
           THEN Reply("reveal", 404, "RoomNotFound", cookie)
           ELSE Begin("reveal", p, code, cookie, NoSession, RevealRoom(room))

Reveal(p, codeParam, cookie) ==
  LET code == toUpperCase(codeParam)
      room == getRoom(code)
  IN  /\ CanStart
      /\ IF room = Null
           THEN Reply("reveal", 404, "RoomNotFound", cookie)
         ELSE IF cookie = NoSession \/ ~MapHas(room.members, cookie)
           THEN Reply("reveal", 403, "NotAMember", cookie)
         ELSE Begin("reveal", p, code, cookie, NoSession, RevealRoom(room))

Reset(p, codeParam, cookie) ==
  LET code == toUpperCase(codeParam)
      room == getRoom(code)
  IN  /\ CanStart
      /\ IF room = Null
           THEN Reply("reset", 404, "RoomNotFound", cookie)
         ELSE IF cookie = NoSession \/ ~MapHas(room.members, cookie)
           THEN Reply("reset", 403, "NotAMember", cookie)
         ELSE Begin("reset", p, code, cookie, NoSession, ResetRoom(room))

\* A removal that also hides the results.
RemoveMemberAndHide(room, memberId) ==
  [room EXCEPT !.members = MapDelete(@, memberId), !.showResults = FALSE]

RemoveMember(room, memberId) == [room EXCEPT !.members = MapDelete(@, memberId)]

Remove(p, codeParam, cookie, memberId) ==
  LET code == toUpperCase(codeParam)
      room == getRoom(code)
  IN  /\ CanStart
      /\ IF room = Null
           THEN Reply("remove", 404, "RoomNotFound", cookie)
         ELSE IF cookie = NoSession \/ ~MapHas(room.members, cookie)
           THEN Reply("remove", 403, "NotAMember", cookie)
         ELSE IF ~MapHas(room.members, memberId)
           THEN Reply("remove", 404, "TargetNotFound", cookie)
         ELSE Begin("remove", p, code, cookie, memberId, RemoveMember(room, memberId))

(***************************************************************************)
(* GET /rooms/:code                                                        *)
(***************************************************************************)
\* A room info that asks for a session before it looks for the room.
InfoAuth(p, codeParam, cookie) ==
  LET code == toUpperCase(codeParam)
  IN  /\ CanStart
      /\ IF cookie = NoSession
           THEN Reply("info", 401, "Unauthenticated", cookie)
         ELSE IF getRoom(code) = Null
           THEN Reply("info", 404, "RoomNotFound", cookie)
         ELSE Reply("info", 200, "", cookie)

\* The room's code, member count and the caller's entry, or 404.
Info(p, codeParam, cookie) ==
  LET code == toUpperCase(codeParam)
  IN  /\ CanStart
      /\ IF getRoom(code) = Null
           THEN Reply("info", 404, "RoomNotFound", cookie)
           ELSE Reply("info", 200, "", cookie)

(***************************************************************************)
(* storage.updateRoom and broadcastToRoom, as run by the handlers          *)
(***************************************************************************)
Writers == { "join", "vote", "reveal", "reset", "remove" }

\* The ids a cleanup cycle took out of the room it read.
Removed(read, room) == MapKeys(read.members) \ MapKeys(room.members)

\* The ids a handler's write takes out of the room on purpose.
Target(req) == IF req.kind = "remove" THEN { req.arg } ELSE {}

\* The bookkeeping of the members that left the room `code`.
Forget(set, code, ids) == { a \in set : ~(a[1] = code /\ a[2] \in ids) }
Clear(votes, code, ids) ==
  [ a \in DOMAIN votes |-> IF a[1] = code /\ a[2] \in ids THEN NoVote ELSE votes[a] ]

\* updateRoom, first await: the TTL of the key.
UpdateTtl(r) ==
  /\ Ready
  /\ reqs[r] # Idle /\ reqs[r].kind \in Writers /\ reqs[r].pc = "ttl"
  /\ reqs' = [reqs EXCEPT ![r].ttl = redisTtl(reqs[r].code), ![r].pc = "setex"]
  /\ resp' = NoResponse
  /\ UNCHANGED << now, store, expireAt, roomClients, subs, reaper, acked, cast >>

\* updateRoom, second await: the SETEX of the serialized room.
UpdateSetex(r) ==
  /\ Ready
  /\ reqs[r] # Idle /\ reqs[r].kind \in Writers /\ reqs[r].pc = "setex"
  /\ Setex(reqs[r].code, expiryTime(reqs[r].ttl), serializeRoom(reqs[r].room))
  /\ reqs' = [reqs EXCEPT ![r].pc = "bcast"]
  /\ acked' = Forget(acked, reqs[r].code, Target(reqs[r]))
  /\ cast' = Clear(cast, reqs[r].code, Target(reqs[r]))
  /\ resp' = NoResponse
  /\ UNCHANGED << now, roomClients, subs, reaper >>

\* updateRoom with its two awaits taken together, for the specifications in
\* which no step changes the expiry of a key between them.
UpdateRoom(r) ==
  /\ Ready
  /\ reqs[r] # Idle /\ reqs[r].kind \in Writers /\ reqs[r].pc = "ttl"
  /\ Setex(reqs[r].code, expiryTime(redisTtl(reqs[r].code)), serializeRoom(reqs[r].room))
  /\ reqs' = [reqs EXCEPT ![r].pc = "bcast"]
  /\ acked' = Forget(acked, reqs[r].code, Target(reqs[r]))
  /\ cast' = Clear(cast, reqs[r].code, Target(reqs[r]))
  /\ resp' = NoResponse
  /\ UNCHANGED << now, roomClients, subs, reaper >>

\* A publish that invokes the sinks of every room of the process.
DeliverAll(p, code) ==
  LET room == getRoom(code)
  IN  IF room = Null \/ code \notin DOMAIN roomClients[p]
        THEN subs
        ELSE [ u \in SubIds |->
                 IF (\E c \in DOMAIN roomClients[p] : u \in roomClients[p][c]) /\ ~subs[u].aborted
                   THEN [subs[u] EXCEPT !.last = getRoomState(room)]
                   ELSE subs[u] ]

\* A publish of the copy the publishing handler holds, in place of a read of
\* the store.
DeliverCached(p, code) ==
  LET r == CHOOSE s \in Slots :
             reqs[s] # Idle /\ reqs[s].pc = "bcast" /\ reqs[s].proc = p /\ reqs[s].code = code
  IN  IF code \notin DOMAIN roomClients[p]
        THEN subs
        ELSE [ u \in SubIds |->
                 IF u \in roomClients[p][code] /\ ~subs[u].aborted
                   THEN [subs[u] EXCEPT !.last = getRoomState(reqs[r].room)]
                   ELSE subs[u] ]

\* The sinks broadcastToRoom invokes in process p, and what they receive.
Deliver(p, code) ==
  LET room == getRoom(code)
  IN  IF room = Null \/ code \notin DOMAIN roomClients[p]
        THEN subs
        ELSE [ u \in SubIds |->
                 IF u \in roomClients[p][code] /\ ~subs[u].aborted
                   THEN [subs[u] EXCEPT !.last = getRoomState(room)]
                   ELSE subs[u] ]

\* broadcastToRoom(code), then the handler's answer.
Broadcast(r) ==
  /\ Ready
  /\ reqs[r] # Idle /\ reqs[r].kind \in Writers /\ reqs[r].pc = "bcast"
  /\ subs' = Deliver(reqs[r].proc, reqs[r].code)
  /\ resp' = Response(reqs[r].kind, 200, "", reqs[r].sid)
  /\ acked' = IF reqs[r].kind = "join"
                THEN acked \cup { <<reqs[r].code, reqs[r].sid>> }
                ELSE acked
  /\ cast' = CASE reqs[r].kind = "join" -> Clear(cast, reqs[r].code, { reqs[r].sid })
              [] reqs[r].kind = "vote" ->
                   [cast EXCEPT ![<<reqs[r].code, reqs[r].sid>>] = reqs[r].arg]
              [] reqs[r].kind = "reset" -> Clear(cast, reqs[r].code, SessionIds)
              [] OTHER -> cast
  /\ reqs' = [reqs EXCEPT ![r] = Idle]
  /\ UNCHANGED << now, store, expireAt, roomClients, reaper >>

(***************************************************************************)
(* GET /rooms/:code/events                                                 *)
(***************************************************************************)
NoEvent == Null

Stream(pc, p, code, sid, room) ==
  [ pc |-> pc, proc |-> p, code |-> code, sid |-> sid, room |-> room,
    ttl |-> 0, last |-> NoEvent, wake |-> 0, aborted |-> FALSE ]

\* The handler up to its first updateRoom, or up to streamSSE when the
\* request carries no session of a member.
Subscribe(u, p, codeParam, cookie) ==
  LET code == toUpperCase(codeParam)
      room == getRoom(code)
  IN  /\ subs[u] = Closed /\ CanStart
      /\ IF room = Null
           THEN Reply("subscribe", 404, "RoomNotFound", cookie)
           ELSE /\ subs' = [subs EXCEPT ![u] =
                      IF cookie # NoSession /\ MapHas(room.members, cookie)
                        THEN Stream("ttl", p, code, cookie, Touch(room, cookie, now))
                        ELSE Stream("open", p, code, cookie, room)]
                /\ resp' = NoResponse
  /\ UNCHANGED << now, store, expireAt, roomClients, reqs, reaper, acked, cast >>

SubscribeTtl(u) ==
  /\ Ready
  /\ subs[u].pc = "ttl"
  /\ subs' = [subs EXCEPT ![u].ttl = redisTtl(subs[u].code), ![u].pc = "setex"]
  /\ resp' = NoResponse
  /\ UNCHANGED << now, store, expireAt, roomClients, reqs, reaper, acked, cast >>

SubscribeSetex(u) ==
  /\ Ready
  /\ subs[u].pc = "setex"
  /\ Setex(subs[u].code, expiryTime(subs[u].ttl), serializeRoom(subs[u].room))
  /\ subs' = [subs EXCEPT ![u].pc = "open"]
  /\ resp' = NoResponse
  /\ UNCHANGED << now, roomClients, reqs, reaper, acked, cast >>

\* A callback that adds the sink and writes no first event.
SubscribeOpenSilent(u) ==
  LET p == subs[u].proc
      code == subs[u].code
  IN  /\ Ready
      /\ subs[u].pc = "open"
      /\ roomClients' =
           IF code \in DOMAIN roomClients[p]
             THEN [roomClients EXCEPT ![p][code] = @ \cup { u }]
             ELSE roomClients
      /\ subs' = [subs EXCEPT ![u].pc = "write", ![u].room = Null, ![u].ttl = 0]
      /\ resp' = Response("subscribe", 200, "", subs[u].sid)
      /\ UNCHANGED << now, store, expireAt, reqs, reaper, acked, cast >>

\* The streamSSE callback up to its first await: the sink is added to the
\* room's set when the process has one, and the state read by the handler
\* is written as the first event.
SubscribeOpen(u) ==
  LET p == subs[u].proc
      code == subs[u].code
  IN  /\ Ready
      /\ subs[u].pc = "open"
      /\ roomClients' =
           IF code \in DOMAIN roomClients[p]
             THEN [roomClients EXCEPT ![p][code] = @ \cup { u }]
             ELSE roomClients
      /\ subs' = [subs EXCEPT ![u].pc = "write",
                              ![u].last = getRoomState(subs[u].room),
                              ![u].room = Null, ![u].ttl = 0]
      /\ resp' = Response("subscribe", 200, "", subs[u].sid)
      /\ UNCHANGED << now, store, expireAt, reqs, reaper, acked, cast >>

\* The sink of stream u is taken out of the room's set of its process.
Unregister(u) ==
  LET p == subs[u].proc
      code == subs[u].code
  IN  IF code \in DOMAIN roomClients[p]
        THEN [roomClients EXCEPT ![p][code] = @ \ { u }]
        ELSE roomClients

\* The first event is written: stream.onAbort installs the hook and the
\* keep-alive loop starts to sleep.  For a stream that was aborted before,
\* the streaming library decides whether the hook still runs.
SubscribeHook(u) ==
  /\ Ready
  /\ subs[u].pc = "write"
  /\ \/ UNCHANGED roomClients
     \/ subs[u].aborted /\ roomClients' = Unregister(u)
  /\ subs' = [subs EXCEPT ![u].pc = "live", ![u].wake = now + KEEPALIVE_SLEEP]
  /\ resp' = NoResponse
  /\ UNCHANGED << now, store, expireAt, reqs, reaper, acked, cast >>

\* One turn of the keep-alive loop after its sleep of KEEPALIVE_SLEEP: the
\* ping, then the read of the room for the activity refresh.  `wake` is the
\* time at which the sleep ends.
KeepAlive(u) ==
  LET sid == subs[u].sid
      latestRoom == getRoom(subs[u].code)
  IN  /\ subs[u].pc = "live" /\ now >= subs[u].wake /\ CanStart
      /\ subs' = [subs EXCEPT ![u] =
                    IF sid # NoSession /\ latestRoom # Null /\ MapHas(latestRoom.members, sid)
                      THEN [@ EXCEPT !.pc = "kttl", !.room = Touch(latestRoom, sid, now)]
                      ELSE [@ EXCEPT !.wake = now + KEEPALIVE_SLEEP]]
      /\ resp' = NoResponse
  /\ UNCHANGED << now, store, expireAt, roomClients, reqs, reaper, acked, cast >>

KeepAliveTtl(u) ==
  /\ Ready
  /\ subs[u].pc = "kttl"
  /\ subs' = [subs EXCEPT ![u].ttl = redisTtl(subs[u].code), ![u].pc = "ksetex"]
  /\ resp' = NoResponse
  /\ UNCHANGED << now, store, expireAt, roomClients, reqs, reaper, acked, cast >>

KeepAliveSetex(u) ==
  /\ Ready
  /\ subs[u].pc = "ksetex"
  /\ Setex(subs[u].code, expiryTime(subs[u].ttl), serializeRoom(subs[u].room))
  /\ subs' = [subs EXCEPT ![u].pc = "live", ![u].room = Null, ![u].ttl = 0,
                          ![u].wake = now + KEEPALIVE_SLEEP]
  /\ resp' = NoResponse
  /\ UNCHANGED << now, roomClients, reqs, reaper, acked, cast >>

\* The store rejects a command of the activity refresh: the getRoom of a
\* turn that is due, or the TTL or the SETEX of its updateRoom.  Nothing in
\* the loop catches the rejection, so it leaves the loop and the callback
\* of streamSSE.  What the streaming library does with a callback that has
\* thrown is left open: it closes the stream and runs the abort hook, it
\* closes the stream and leaves the sink where it is, or it leaves the
\* stream open with no loop to ping it.
KeepAliveFail(u) ==
  /\ \/ subs[u].pc = "live" /\ now >= subs[u].wake /\ subs[u].sid # NoSession /\ CanStart
     \/ subs[u].pc \in { "kttl", "ksetex" } /\ Ready
  /\ \/ subs' = [subs EXCEPT ![u] = Closed] /\ roomClients' = Unregister(u)
     \/ subs' = [subs EXCEPT ![u] = Closed] /\ roomClients' = roomClients
     \/ subs' = [subs EXCEPT ![u].pc = "ended", ![u].room = Null, ![u].ttl = 0]
          /\ roomClients' = roomClients
  /\ resp' = NoResponse
  /\ UNCHANGED << now, store, expireAt, reqs, reaper, acked, cast >>

\* The pcs of a stream whose callback runs.
OpenPcs == { "write", "live", "kttl", "ksetex" }

\* The client disconnects: the abort hook, when it is installed, removes the
\* sink.  Nothing in the callback ends its loop; whether the streaming
\* library ends the callback of an aborted stream is left open.
Abort(u) ==
  /\ Ready
  /\ subs[u].pc \in OpenPcs /\ ~subs[u].aborted
  /\ roomClients' = IF subs[u].pc = "write" THEN roomClients ELSE Unregister(u)
  /\ \/ subs' = [subs EXCEPT ![u].aborted = TRUE, ![u].last = NoEvent]
     \/ subs[u].pc = "live" /\ subs' = [subs EXCEPT ![u] = Closed]
  /\ resp' = NoResponse
  /\ UNCHANGED << now, store, expireAt, reqs, reaper, acked, cast >>

(***************************************************************************)
(* storage.cleanupInactiveMembers, run every CLEANUP_INTERVAL              *)
(***************************************************************************)
\* Mutation: a member exactly as old as the timeout is inactive too.
IsInactiveInclusive(member, t, inactivityTimeout) ==
  t - member.lastActivity >= inactivityTimeout

IsInactive(member, t, inactivityTimeout) == t - member.lastActivity > inactivityTimeout

RemoveInactive(room, t, inactivityTimeout) ==
  [ room EXCEPT
      !.members = SelectSeq(@, LAMBDA e : ~IsInactive(e[2], t, inactivityTimeout)) ]

\* Mutation: a room exactly as old as the grace period is past it too.
PastGraceInclusive(room, t) == t - room.createdAt >= EMPTY_ROOM_GRACE_PERIOD

PastGrace(room, t) == t - room.createdAt > EMPTY_ROOM_GRACE_PERIOD

\* The cycle moves on to the next key, or ends.
ReaperNext(keys) ==
  IF keys = {} THEN ReaperIdle
  ELSE [ reaper EXCEPT !.pc = "get", !.keys = keys, !.read = Null, !.room = Null,
                        !.ttl = 0, !.key = << >> ]

\* The interval timer fires (every CLEANUP_INTERVAL, at a phase the model
\* leaves open): now = Date.now() and the KEYS room:* listing.
ReaperStart ==
  /\ reaper.pc = "idle" /\ CanStart
  /\ reaper' =
       LET keys == { k \in StoreKeys : store[k] # Null }
       IN  IF keys = {} THEN ReaperIdle
           ELSE [ReaperIdle EXCEPT !.pc = "get", !.now = now, !.keys = keys]
  /\ resp' = NoResponse
  /\ UNCHANGED << now, store, expireAt, roomClients, reqs, subs, acked, cast >>

\* GET of one key and the decision taken on the room read.
ReaperGet(key) ==
  /\ Ready
  /\ reaper.pc = "get" /\ key \in reaper.keys
  /\ reaper' =
       IF store[key] = Null THEN ReaperNext(reaper.keys \ { key })
       ELSE LET room == deserializeRoom(store[key])
                kept == RemoveInactive(room, reaper.now, INACTIVITY_TIMEOUT)
                modified == kept # room
            IN  IF MapSize(kept.members) = 0 /\ PastGrace(kept, reaper.now)
                  THEN [reaper EXCEPT !.pc = "del", !.key = key, !.read = room, !.room = kept]
                ELSE IF modified
                  THEN [reaper EXCEPT !.pc = "ttl", !.key = key, !.read = room, !.room = kept]
                ELSE ReaperNext(reaper.keys \ { key })
  /\ resp' = NoResponse
  /\ UNCHANGED << now, store, expireAt, roomClients, reqs, subs, acked, cast >>

ReaperDel ==
  /\ Ready
  /\ reaper.pc = "del"
  /\ Del(reaper.key)
  /\ reaper' = ReaperNext(reaper.keys \ { reaper.key })
  /\ acked' = Forget(acked, reaper.key, SessionIds)
  /\ cast' = Clear(cast, reaper.key, SessionIds)
  /\ resp' = NoResponse
  /\ UNCHANGED << now, roomClients, reqs, subs >>

ReaperTtl ==
  /\ Ready
  /\ reaper.pc = "ttl"
  /\ reaper' = [reaper EXCEPT !.ttl = redisTtl(reaper.key), !.pc = "setex"]
  /\ resp' = NoResponse
  /\ UNCHANGED << now, store, expireAt, roomClients, reqs, subs, acked, cast >>

ReaperSetex ==
  /\ Ready
  /\ reaper.pc = "setex"
  /\ Setex(reaper.key, expiryTime(reaper.ttl), serializeRoom(reaper.room))
  /\ reaper' = ReaperNext(reaper.keys \ { reaper.key })
  /\ acked' = Forget(acked, reaper.key, Removed(reaper.read, reaper.room))
  /\ cast' = Clear(cast, reaper.key, Removed(reaper.read, reaper.room))
  /\ resp' = NoResponse
  /\ UNCHANGED << now, roomClients, reqs, subs >>

\* A command of the cleanup is rejected by the store: the GET of one of the
\* keys left, or the DEL, TTL or SETEX for the key at hand.  Nothing in
\* cleanupInactiveMembers or in cleanup() catches the rejection: the cycle
\* is over.  The record keeps the cycle's time and the key that failed.
ReaperFail(key) ==
  /\ Ready
  /\ \/ reaper.pc = "get" /\ key \in reaper.keys
     \/ reaper.pc \in { "del", "ttl", "setex" } /\ key = reaper.key
  /\ reaper' = [ReaperIdle EXCEPT !.now = reaper.now, !.key = key, !.error = TRUE]
  /\ resp' = NoResponse
  /\ UNCHANGED << now, store, expireAt, roomClients, reqs, subs, acked, cast >>

(***************************************************************************)
(* Specifications.  All of them run one server process ("p1").             *)
(***************************************************************************)
ServerProcs == { "p1" }

\* The callback of stream u has ended with the step.
Ended(u) == subs'[u] = Closed

\* No handler, subscription step or cleanup cycle is between two awaits.
Quiet == InFlight = 0

\* The steps that take a started handler to its answer.
HandlerSteps ==
  \/ \E r \in Slots : CreateSetex(r)
  \/ \E r \in Slots : CreateDone(r)
  \/ \E r \in Slots : UpdateTtl(r)
  \/ \E r \in Slots : UpdateSetex(r)
  \/ \E r \in Slots : Broadcast(r)

SubscribeSteps ==
  \/ \E u \in SubIds : SubscribeTtl(u)
  \/ \E u \in SubIds : SubscribeSetex(u)
  \/ \E u \in SubIds : SubscribeOpen(u)
  \/ \E u \in SubIds : SubscribeHook(u)

ReaperSteps ==
  \/ \E k \in StoreKeys : ReaperGet(k)
  \/ ReaperDel
  \/ ReaperTtl
  \/ ReaperSetex

(***************************************************************************)
(* Spec: the request handlers and the cleanup cycle run one after another, *)
(* and time passes in steps of the inactivity timeout, so that a member or *)
(* a room is seen younger than, exactly as old as, and older than it.      *)
(***************************************************************************)
TimedNames == { << "A" >>, << "B" >> }
TimedVotes == { Num(5), NoVote, Num(4) }

Next ==
  \/ Observe
  \/ Advance(INACTIVITY_TIMEOUT)
  \/ \E r \in Slots, p \in ServerProcs, c \in RoomCodes : Quiet /\ CreateDraw(r, p, c)
  \/ \E p \in ServerProcs, c \in CodeParams, k \in Cookies, n \in TimedNames :
       Quiet /\ Join(p, c, k, n)
  \/ \E p \in ServerProcs, c \in CodeParams, k \in Cookies, v \in TimedVotes :
       Quiet /\ Vote(p, c, k, v)
  \/ \E p \in ServerProcs, c \in CodeParams, k \in Cookies :
       Quiet /\ Reveal(p, c, k)
  \/ \E p \in ServerProcs, c \in CodeParams, k \in Cookies :
       Quiet /\ Reset(p, c, k)
  \/ \E p \in ServerProcs, c \in CodeParams, k \in Cookies, m \in SessionIds :
       Quiet /\ Remove(p, c, k, m)
  \/ Quiet /\ ReaperStart
  \/ HandlerSteps
  \/ ReaperSteps

Spec == Init /\ [][Next]_vars

(***************************************************************************)
(* SpecSub: the request handlers and one subscription run one after        *)
(* another; the clock stands still and the callback of a stream ends when  *)
(* its client disconnects.                                                 *)
(***************************************************************************)
NextSub ==
  \/ Observe
  \/ \E r \in Slots, p \in ServerProcs, c \in RoomCodes : Quiet /\ CreateDraw(r, p, c)
  \/ \E p \in ServerProcs, c \in CodeParams, k \in Cookies, n \in NameInputs :
       Quiet /\ Join(p, c, k, n)
  \/ \E p \in ServerProcs, c \in CodeParams, k \in Cookies, v \in VoteInputs :
       Quiet /\ Vote(p, c, k, v)
  \/ \E p \in ServerProcs, c \in CodeParams, k \in Cookies :
       Quiet /\ Reveal(p, c, k)
  \/ \E p \in ServerProcs, c \in CodeParams, k \in Cookies :
       Quiet /\ Reset(p, c, k)
  \/ \E p \in ServerProcs, c \in CodeParams, k \in Cookies, m \in SessionIds :
       Quiet /\ Remove(p, c, k, m)
  \/ \E u \in SubIds, p \in ServerProcs, c \in CodeParams, k \in Cookies :
       Quiet /\ Subscribe(u, p, c, k)
  \/ \E u \in SubIds : Quiet /\ Abort(u) /\ Ended(u)
  \/ HandlerSteps
  \/ SubscribeSteps

SpecSub == Init /\ [][NextSub]_vars

(***************************************************************************)
(* SpecRace: up to MaxInFlight handlers on one room interleave at their    *)
(* awaits; the clock stands still and no vote carries a value.             *)
(***************************************************************************)
RaceCodes == { toLowerCase(CodeA) }
RaceNames == { << "A" >>, << "a" >>, << "B" >> }
RaceVotes == { NoVote }

\* The request is not answered at once: the handler goes on to its write.
Accepted == resp' = NoResponse

NextRace ==
  \/ Observe
  \/ \E r \in Slots, p \in ServerProcs, c \in RoomCodes : Quiet /\ CreateDraw(r, p, c)
  \/ \E p \in ServerProcs, c \in RaceCodes, k \in Cookies, n \in RaceNames :
       Join(p, c, k, n) /\ Accepted
  \/ \E p \in ServerProcs, c \in RaceCodes, k \in SessionIds, v \in RaceVotes :
       Vote(p, c, k, v) /\ Accepted
  \/ \E p \in ServerProcs, c \in RaceCodes, k \in SessionIds : Reset(p, c, k) /\ Accepted
  \/ \E p \in ServerProcs, c \in RaceCodes, k \in SessionIds, m \in SessionIds :
       Remove(p, c, k, m) /\ Accepted
  \/ \E r \in Slots : CreateSetex(r)
  \/ \E r \in Slots : CreateDone(r)
  \/ \E r \in Slots : UpdateRoom(r)
  \/ \E r \in Slots : Broadcast(r)

SpecRace == Init /\ [][NextRace]_vars

(***************************************************************************)
(* SpecLive: joins, one subscription with its keep-alive loop and the      *)
(* cleanup cycle run one after another while time passes; no room code is  *)
(* drawn twice.                                                            *)
(***************************************************************************)
LiveNames == { << "A" >>, << "B" >> }

\* The code drawn for a new room is one the process has not handed out yet.
FreshCode(p, code) == code \notin DOMAIN roomClients[p]

NextLive ==
  \/ Observe
  \/ Advance(INACTIVITY_TIMEOUT)
  \/ \E r \in Slots, p \in ServerProcs, c \in RoomCodes :
       Quiet /\ FreshCode(p, c) /\ CreateDraw(r, p, c)
  \/ \E p \in ServerProcs, c \in RaceCodes, k \in Cookies, n \in LiveNames :
       Quiet /\ Join(p, c, k, n) /\ Accepted
  \/ \E u \in SubIds, p \in ServerProcs, c \in RaceCodes, k \in Cookies :
       Quiet /\ Subscribe(u, p, c, k) /\ Accepted
  \/ \E u \in SubIds : Quiet /\ Abort(u) /\ Ended(u)
  \/ \E u \in SubIds : Quiet /\ KeepAlive(u)
  \/ \E u \in SubIds : KeepAliveTtl(u)
  \/ \E u \in SubIds : KeepAliveSetex(u)
  \/ Quiet /\ ReaperStart
  \/ HandlerSteps
  \/ SubscribeSteps
  \/ ReaperSteps

SpecLive == Init /\ [][NextLive]_vars

(***************************************************************************)
(* SpecProcs: two server processes share the store; rooms are created,     *)
(* joined and subscribed to through either of them, one request after      *)
(* another.  A process started after a restart is a process whose          *)
(* roomClients map is empty.                                               *)
(***************************************************************************)
ProcsNames == { << "A" >> }

NextProcs ==
  \/ Observe
  \/ \E r \in Slots, p \in Procs, c \in RoomCodes :
       Quiet /\ FreshCode(p, c) /\ CreateDraw(r, p, c)
  \/ \E p \in Procs, c \in RaceCodes, k \in Cookies, n \in ProcsNames :
       Quiet /\ Join(p, c, k, n) /\ Accepted
  \/ \E u \in SubIds, p \in Procs, c \in RaceCodes, k \in Cookies :
       Quiet /\ Subscribe(u, p, c, k) /\ Accepted
  \/ \E u \in SubIds : Quiet /\ Abort(u) /\ Ended(u)
  \/ HandlerSteps
  \/ SubscribeSteps

SpecProcs == Init /\ [][NextProcs]_vars

(***************************************************************************)
(* SpecAbort: SpecLive with a client that disconnects at any await of the  *)
(* stream's callback, and with callbacks that go on after the disconnect.  *)
(***************************************************************************)
NextAbort ==
  \/ Observe
  \/ Advance(INACTIVITY_TIMEOUT)
  \/ \E r \in Slots, p \in ServerProcs, c \in RoomCodes :
       Quiet /\ FreshCode(p, c) /\ CreateDraw(r, p, c)
  \/ \E p \in ServerProcs, c \in RaceCodes, k \in Cookies, n \in LiveNames :
       Quiet /\ Join(p, c, k, n) /\ Accepted
  \/ \E u \in SubIds, p \in ServerProcs, c \in RaceCodes, k \in Cookies :
       Quiet /\ Subscribe(u, p, c, k) /\ Accepted
  \/ \E u \in SubIds : Abort(u)
  \/ \E u \in SubIds : Quiet /\ KeepAlive(u)
  \/ \E u \in SubIds : KeepAliveTtl(u)
  \/ \E u \in SubIds : KeepAliveSetex(u)
  \/ Quiet /\ ReaperStart
  \/ HandlerSteps
  \/ SubscribeSteps
  \/ ReaperSteps

SpecAbort == Init /\ [][NextAbort]_vars

(***************************************************************************)
(* SpecTick: a member's stream whose keep-alive turns interleave with the  *)
(* awaits of joins and votes, and the cleanup cycle, while time passes in  *)
(* steps of the keep-alive sleep.  The stream is opened by a member, every *)
(* turn of its loop is taken when its sleep ends, and no step takes time:  *)
(* the clock stands still while anything is between two awaits.  The room  *)
(* is created, joined and subscribed to before time passes.                *)
(***************************************************************************)
\* The clock has not moved yet.
AtStart == now = 0

\* The stream is opened with the cookie of a member of the room.
AsMember(u) == subs'[u].pc = "ttl"

\* No sleeping stream is due for a turn of its keep-alive loop.
OnTime == \A u \in SubIds : subs[u].pc = "live" => subs[u].wake > now

\* The number of keep-alive sleeps the clock passes through.
MaxTicks == 11

\* The clock may move on by one more keep-alive sleep.
TicksLeft == now < MaxTicks * KEEPALIVE_SLEEP

NextTick ==
  \/ Observe
  \/ Quiet /\ OnTime /\ TicksLeft /\ Advance(KEEPALIVE_SLEEP)
  \/ \E r \in Slots, p \in ServerProcs, c \in RoomCodes :
       AtStart /\ Quiet /\ FreshCode(p, c) /\ CreateDraw(r, p, c)
  \/ \E p \in ServerProcs, c \in RaceCodes, k \in Cookies, n \in LiveNames :
       AtStart /\ Quiet /\ Join(p, c, k, n) /\ Accepted
  \/ \E p \in ServerProcs, c \in RaceCodes, k \in SessionIds, v \in RaceVotes :
       Quiet /\ Vote(p, c, k, v) /\ Accepted
  \/ \E u \in SubIds, p \in ServerProcs, c \in RaceCodes, k \in SessionIds :
       AtStart /\ Quiet /\ Subscribe(u, p, c, k) /\ AsMember(u)
  \/ \E u \in SubIds : KeepAlive(u)
  \/ \E u \in SubIds : KeepAliveTtl(u)
  \/ \E u \in SubIds : KeepAliveSetex(u)
  \/ Quiet /\ ReaperStart
  \/ HandlerSteps
  \/ SubscribeSteps
  \/ ReaperSteps

SpecTick == Init /\ [][NextTick]_vars

(***************************************************************************)
(* SpecTtl: the last second of a room's two hours.  The room was created   *)
(* at time 0 and has one member; votes, reveals and resets are handled one *)
(* after another, time passes in quarters of a second, and no step takes   *)
(* time: the clock stands still while a handler is between two awaits.     *)
(***************************************************************************)
\* The step of the clock, in milliseconds.
ClockGrain == 250

\* The member the room has had since its creation.
TtlMember == "s1"

InitTtl ==
  /\ now = ROOM_TTL * 1000 - 1000
  /\ store = [k \in StoreKeys |->
                IF k = CodeA
                  THEN serializeRoom(
                         JoinMember(NewRoom(CodeA, 0), TtlMember, << "A" >>,
                                    ROOM_TTL * 1000 - 1000))
                  ELSE Null]
  /\ expireAt = [k \in StoreKeys |-> IF k = CodeA THEN ROOM_TTL * 1000 ELSE 0]
  /\ roomClients = [p \in Procs |->
                      IF p \in ServerProcs THEN [c \in { CodeA } |-> {}] ELSE EmptyMap]
  /\ reqs = [r \in Slots |-> Idle]
  /\ subs = [u \in SubIds |-> Closed]
  /\ reaper = ReaperIdle
  /\ resp = NoResponse
  /\ acked = { << CodeA, TtlMember >> }
  /\ cast = [a \in StoreKeys \X SessionIds |-> NoVote]

NextTtl ==
  \/ Observe
  \/ Quiet /\ now <= ROOM_TTL * 1000 /\ Pass(ClockGrain)
  \/ \E p \in ServerProcs, c \in RaceCodes, k \in SessionIds, v \in TimedVotes :
       Quiet /\ Vote(p, c, k, v)
  \/ \E p \in ServerProcs, c \in RaceCodes, k \in SessionIds : Quiet /\ Reveal(p, c, k)
  \/ \E p \in ServerProcs, c \in RaceCodes, k \in SessionIds : Quiet /\ Reset(p, c, k)
  \/ \E r \in Slots : UpdateTtl(r)
  \/ \E r \in Slots : UpdateSetex(r)
  \/ \E r \in Slots : Broadcast(r)

SpecTtl == InitTtl /\ [][NextTtl]_vars

(***************************************************************************)
(* SpecGone: the handlers and the cleanup cycle run one after another      *)
(* while time passes in steps of the inactivity timeout and, once, by the  *)
(* whole lifetime of a room: rooms that never existed, rooms the cleanup   *)
(* deleted and rooms that expired.  Members share one name, so a room has  *)
(* one member at most and the cleanup that evicts it deletes the room.     *)
(***************************************************************************)
NextGone ==
  \/ Observe
  \/ Quiet /\ Advance(INACTIVITY_TIMEOUT)
  \/ Quiet /\ now < ROOM_TTL * 1000 /\ Pass(ROOM_TTL * 1000)
  \/ \E r \in Slots, p \in ServerProcs, c \in RoomCodes : Quiet /\ CreateDraw(r, p, c)
  \/ \E p \in ServerProcs, c \in RaceCodes, k \in Cookies, n \in ProcsNames :
       Quiet /\ Join(p, c, k, n)
  \/ \E p \in ServerProcs, c \in RaceCodes, k \in Cookies : Quiet /\ Info(p, c, k)
  \/ \E p \in ServerProcs, c \in RaceCodes, k \in Cookies, v \in { Num(5) } :
       Quiet /\ Vote(p, c, k, v)
  \/ \E p \in ServerProcs, c \in RaceCodes, k \in Cookies : Quiet /\ Reveal(p, c, k)
  \/ \E p \in ServerProcs, c \in RaceCodes, k \in Cookies : Quiet /\ Reset(p, c, k)
  \/ \E p \in ServerProcs, c \in RaceCodes, k \in Cookies, m \in SessionIds :
       Quiet /\ Remove(p, c, k, m)
  \/ \E u \in SubIds, p \in ServerProcs, c \in RaceCodes, k \in Cookies :
       Quiet /\ Subscribe(u, p, c, k)
  \/ \E u \in SubIds : Quiet /\ Abort(u) /\ Ended(u)
  \/ Quiet /\ ReaperStart
  \/ HandlerSteps
  \/ SubscribeSteps
  \/ \E k \in StoreKeys : ReaperGet(k)
  \/ ReaperDel

SpecGone == Init /\ [][NextGone]_vars

(***************************************************************************)
(* SpecFail: two rooms, joins and the cleanup cycle, one after another,    *)
(* while time passes; any store command of the cleanup may be rejected.    *)
(***************************************************************************)
FailCodes == { CodeA, CodeB }

NextFail ==
  \/ Observe
  \/ Quiet /\ Advance(INACTIVITY_TIMEOUT)
  \/ \E r \in Slots, p \in ServerProcs, c \in FailCodes :
       Quiet /\ FreshCode(p, c) /\ CreateDraw(r, p, c)
  \/ \E p \in ServerProcs, c \in FailCodes, k \in Cookies, n \in LiveNames :
       Quiet /\ Join(p, c, k, n) /\ Accepted
  \/ Quiet /\ ReaperStart
  \/ \E k \in StoreKeys : ReaperFail(k)
  \/ HandlerSteps
  \/ ReaperSteps

SpecFail == Init /\ [][NextFail]_vars

(***************************************************************************)
(* SpecCast: one room with one member and one subscriber; the member's     *)
(* votes, reveals and resets are handled concurrently, each handler        *)
(* reading the room, writing its changed copy and publishing at its own    *)
(* pace.  The clock stands still.                                          *)
(***************************************************************************)
NextCast ==
  \/ Observe
  \/ \E r \in Slots, p \in ServerProcs, c \in RoomCodes :
       Quiet /\ FreshCode(p, c) /\ CreateDraw(r, p, c)
  \/ \E p \in ServerProcs, c \in RaceCodes, k \in Cookies, n \in ProcsNames :
       Quiet /\ Join(p, c, k, n) /\ Accepted
  \/ \E u \in SubIds, p \in ServerProcs, c \in RaceCodes, k \in Cookies :
       Quiet /\ Subscribe(u, p, c, k) /\ Accepted
  \/ \E u \in SubIds : Quiet /\ Abort(u) /\ Ended(u)
  \/ \E p \in ServerProcs, c \in RaceCodes, k \in SessionIds, v \in { Num(5), NoVote } :
       Vote(p, c, k, v) /\ Accepted
  \/ \E p \in ServerProcs, c \in RaceCodes, k \in SessionIds : Reveal(p, c, k) /\ Accepted
  \/ \E p \in ServerProcs, c \in RaceCodes, k \in SessionIds : Reset(p, c, k) /\ Accepted
  \/ \E r \in Slots : CreateSetex(r)
  \/ \E r \in Slots : CreateDone(r)
  \/ \E r \in Slots : UpdateRoom(r)
  \/ \E r \in Slots : Broadcast(r)
  \/ SubscribeSteps

SpecCast == Init /\ [][NextCast]_vars

(***************************************************************************)
(* SpecPing: one room, its member and one subscription whose keep-alive    *)
(* loop wakes every KEEPALIVE_SLEEP; the store may reject a command of the *)
(* loop's activity refresh.  Requests are handled one after another.       *)
(***************************************************************************)
NextPing ==
  \/ Observe
  \/ Quiet /\ OnTime /\ TicksLeft /\ Advance(KEEPALIVE_SLEEP)
  \/ \E r \in Slots, p \in ServerProcs, c \in RoomCodes :
       Quiet /\ FreshCode(p, c) /\ CreateDraw(r, p, c)
  \/ \E p \in ServerProcs, c \in RaceCodes, k \in Cookies, n \in ProcsNames :
       Quiet /\ Join(p, c, k, n) /\ Accepted
  \/ \E u \in SubIds, p \in ServerProcs, c \in RaceCodes, k \in Cookies :
       Quiet /\ Subscribe(u, p, c, k) /\ Accepted
  \/ \E u \in SubIds : Quiet /\ KeepAlive(u)
  \/ \E u \in SubIds : KeepAliveTtl(u)
  \/ \E u \in SubIds : KeepAliveSetex(u)
  \/ \E u \in SubIds : KeepAliveFail(u)
  \/ HandlerSteps
  \/ SubscribeSteps

SpecPing == Init /\ [][NextPing]_vars

(***************************************************************************)
(* SpecReap: the cleanup cycle runs while joins are handled: between the   *)
(* cycle's read of a room and its DEL, and between a join's read and its   *)
(* write, any step of the other may be taken.  Time passes while nothing   *)
(* is in flight.                                                           *)
(***************************************************************************)
NextReap ==
  \/ Observe
  \/ Quiet /\ Advance(INACTIVITY_TIMEOUT)
  \/ \E r \in Slots, p \in ServerProcs, c \in RoomCodes :
       Quiet /\ FreshCode(p, c) /\ CreateDraw(r, p, c)
  \/ \E p \in ServerProcs, c \in RaceCodes, k \in Cookies, n \in ProcsNames :
       Join(p, c, k, n) /\ Accepted
  \/ ReaperStart
  \/ HandlerSteps
  \/ \E k \in StoreKeys : ReaperGet(k)
  \/ ReaperDel

SpecReap == Init /\ [][NextReap]_vars

(***************************************************************************)
(* SpecLeave: members join and open their stream at time 0, and a client   *)
(* that disconnects does so at time 0 too; from then on only the clock,    *)
(* the keep-alive loops and the cleanup cycle run, the clock in steps of   *)
(* KEEPALIVE_SLEEP with every loop taking its turn on time.                *)
(***************************************************************************)
NextLeave ==
  \/ Observe
  \/ Quiet /\ OnTime /\ TicksLeft /\ Advance(KEEPALIVE_SLEEP)
  \/ \E r \in Slots, p \in ServerProcs, c \in RoomCodes :
       AtStart /\ Quiet /\ FreshCode(p, c) /\ CreateDraw(r, p, c)
  \/ \E p \in ServerProcs, c \in RaceCodes, k \in Cookies, n \in LiveNames :
       AtStart /\ Quiet /\ Join(p, c, k, n) /\ Accepted
  \/ \E u \in SubIds, p \in ServerProcs, c \in RaceCodes, k \in SessionIds :
       AtStart /\ Quiet /\ Subscribe(u, p, c, k) /\ AsMember(u)
  \/ \E u \in SubIds : AtStart /\ Quiet /\ Abort(u)
  \/ \E u \in SubIds : Quiet /\ KeepAlive(u)
  \/ \E u \in SubIds : KeepAliveTtl(u)
  \/ \E u \in SubIds : KeepAliveSetex(u)
  \/ Quiet /\ ReaperStart
  \/ HandlerSteps
  \/ SubscribeSteps
  \/ ReaperSteps

SpecLeave == Init /\ [][NextLeave]_vars

(***************************************************************************)
(* SpecRooms: two rooms in one store and one process; the operations on    *)
(* either room, one subscription and its keep-alive loop run one after     *)
(* another, and the clock moves by one keep-alive sleep.                   *)
(***************************************************************************)
NextRooms ==
  \/ Observe
  \/ Quiet /\ OnTime /\ now < KEEPALIVE_SLEEP /\ Advance(KEEPALIVE_SLEEP)
  \/ \E r \in Slots, p \in ServerProcs, c \in FailCodes :
       Quiet /\ FreshCode(p, c) /\ CreateDraw(r, p, c)
  \/ \E p \in ServerProcs, c \in FailCodes, k \in Cookies, n \in ProcsNames :
       Quiet /\ Join(p, toLowerCase(c), k, n) /\ Accepted
  \/ \E p \in ServerProcs, c \in FailCodes, k \in SessionIds :
       Quiet /\ Vote(p, toLowerCase(c), k, Num(5)) /\ Accepted
  \/ \E p \in ServerProcs, c \in FailCodes, k \in SessionIds :
       Quiet /\ Reveal(p, toLowerCase(c), k) /\ Accepted
  \/ \E p \in ServerProcs, c \in FailCodes, k \in SessionIds :
       Quiet /\ Reset(p, toLowerCase(c), k) /\ Accepted
  \/ \E p \in ServerProcs, c \in FailCodes, k \in SessionIds, m \in SessionIds :
       Quiet /\ Remove(p, toLowerCase(c), k, m) /\ Accepted
  \/ \E u \in SubIds, p \in ServerProcs, c \in FailCodes, k \in Cookies :
       Quiet /\ Subscribe(u, p, toLowerCase(c), k) /\ Accepted
  \/ \E u \in SubIds : Quiet /\ Abort(u) /\ Ended(u)
  \/ \E u \in SubIds : Quiet /\ KeepAlive(u)
  \/ \E u \in SubIds : KeepAliveTtl(u)
  \/ \E u \in SubIds : KeepAliveSetex(u)
  \/ HandlerSteps
  \/ SubscribeSteps

SpecRooms == Init /\ [][NextRooms]_vars

(***************************************************************************)
(* SpecValues: the store holds one room, any of the rooms with up to two   *)
(* members that joins, votes and reveals at time 0 lead to; votes of the   *)
(* session s1 with any value of a request body, reveals and resets are     *)
(* handled one after another, each reading the stored form and writing it  *)
(* back.                                                                   *)
(***************************************************************************)
\* The rooms a store may hold at time 0.
RoomValues ==
  LET entries == { << id, Member(id, n, v, 0) >> :
                     id \in SessionIds, n \in LiveNames, v \in { NoVote, Num(5), Str("?") } }
      maps == { << >> } \cup { << e >> : e \in entries }
                \cup { << e[1], e[2] >> :
                         e \in { x \in entries \X entries :
                                   x[1][1] # x[2][1] /\ x[1][2].name # x[2][2].name } }
  IN  { [ code |-> CodeA, members |-> m, showResults |-> s, createdAt |-> 0 ] :
          m \in maps, s \in BOOLEAN }

\* The values a vote request may carry: the values of the vote set, null,
\* numbers and strings outside the set, undefined and an object.
AnyVotes ==
  VALID_VOTES \cup
    { NoVote, Num(0), Num(4), Num(100), Str("5"), Str("x"), << "undefined" >>, << "object" >> }

InitValues ==
  /\ now = 0
  /\ \E room \in RoomValues :
       store = [k \in StoreKeys |-> IF k = CodeA THEN serializeRoom(room) ELSE Null]
  /\ expireAt = [k \in StoreKeys |-> IF k = CodeA THEN ROOM_TTL * 1000 ELSE 0]
  /\ roomClients = [p \in Procs |->
                      IF p \in ServerProcs THEN [c \in { CodeA } |-> {}] ELSE EmptyMap]
  /\ reqs = [r \in Slots |-> Idle]
  /\ subs = [u \in SubIds |-> Closed]
  /\ reaper = ReaperIdle
  /\ resp = NoResponse
  /\ acked = {}
  /\ cast = [a \in StoreKeys \X SessionIds |-> NoVote]

NextValues ==
  \/ Observe
  \/ \E p \in ServerProcs, c \in RaceCodes, v \in AnyVotes :
       Quiet /\ Vote(p, c, "s1", v)
  \/ \E p \in ServerProcs, c \in RaceCodes, k \in SessionIds : Quiet /\ Reveal(p, c, k)
  \/ \E p \in ServerProcs, c \in RaceCodes, k \in SessionIds : Quiet /\ Reset(p, c, k)
  \/ \E r \in Slots : UpdateRoom(r)
  \/ \E r \in Slots : Broadcast(r)

SpecValues == InitValues /\ [][NextValues]_vars

(***************************************************************************)
(* SpecCreate: create requests that run concurrently and may draw the same *)
(* code, next to joins of the rooms they create.                           *)
(***************************************************************************)
NextCreate ==
  \/ Observe
  \/ Quiet /\ now < KEEPALIVE_SLEEP /\ Advance(KEEPALIVE_SLEEP)
  \/ \E r \in Slots, p \in ServerProcs, c \in FailCodes : CreateDraw(r, p, c)
  \/ \E p \in ServerProcs, c \in RaceCodes, k \in Cookies, n \in ProcsNames :
       Join(p, c, k, n) /\ Accepted
  \/ \E r \in Slots : CreateSetex(r)
  \/ \E r \in Slots : CreateDone(r)
  \/ \E r \in Slots : UpdateRoom(r)
  \/ \E r \in Slots : Broadcast(r)

SpecCreate == Init /\ [][NextCreate]_vars

(***************************************************************************)
(* SpecRejoin: the store holds one room of up to two members; sessions     *)
(* with and without a cookie join it, members among them under a name no   *)
(* member holds, and the votes of the room are revealed.                   *)
(***************************************************************************)
RejoinNames == { << "A" >>, << "B" >>, << "C" >> }

NextRejoin ==
  \/ Observe
  \/ \E p \in ServerProcs, c \in RaceCodes, k \in Cookies, n \in RejoinNames :
       Quiet /\ Join(p, c, k, n)
  \/ \E p \in ServerProcs, c \in RaceCodes, k \in SessionIds : Quiet /\ Reveal(p, c, k)
  \/ \E r \in Slots : UpdateRoom(r)
  \/ \E r \in Slots : Broadcast(r)

SpecRejoin == InitValues /\ [][NextRejoin]_vars

(***************************************************************************)
(* Properties                                                              *)
(***************************************************************************)
\* The room stored under a key of a store, or Null.
RoomIn(st, key) == IF st[key] = Null THEN Null ELSE deserializeRoom(st[key])

\* The member `id` of a room.
MemberOf(room, id) == MapGet(room.members, id)

SameNameIgnoringCase(a, b) == toLowerCase(a) = toLowerCase(b)

\* The step is the SETEX of the handler in slot r, of the given kind.
WriteBy(r, kind) ==
  /\ reqs[r].kind = kind /\ reqs[r].pc = "setex"
  /\ reqs'[r].kind = kind /\ reqs'[r].pc = "bcast"

\* The client of stream u is connected and the stream sleeps in its loop.
Connected(u) == subs[u].pc = "live" /\ ~subs[u].aborted

\* The step is the start of a handler of the given kind: it answers at once
\* or goes on to its write.
StartOf(kind) ==
  /\ Ready
  /\ resp'.op = kind \/ \E r \in Slots : reqs[r] = Idle /\ reqs'[r].kind = kind

\* C1: while showResults is false the state derived from a stored room, and
\* every update event a subscriber received, shows "hidden" for a vote that
\* is cast and null for one that is not, and never the value of a vote.
HiddenUntilReveal ==
  /\ \A k \in StoreKeys :
       store[k] # Null /\ ~getRoom(k).showResults =>
         LET room == getRoom(k)
             state == getRoomState(room)
         IN  /\ DOMAIN state.members = DOMAIN room.members
             /\ \A i \in DOMAIN room.members :
                  /\ room.members[i][2].vote # NoVote => state.members[i].vote = Hidden
                  /\ room.members[i][2].vote = NoVote => state.members[i].vote = NoVote
  /\ \A u \in SubIds :
       subs[u] # Closed /\ subs[u].last # NoEvent /\ ~subs[u].last.showResults =>
         \A i \in DOMAIN subs[u].last.members :
           subs[u].last.members[i].vote \in { Hidden, NoVote }

\* A subscriber holds an update of an unrevealed room in which a vote of 5
\* is cast, and the update shows it as hidden.
HiddenUntilReveal_Witness ==
  \E u \in SubIds, k \in StoreKeys :
    /\ Connected(u) /\ subs[u].last # NoEvent
    /\ store[k] # Null /\ ~getRoom(k).showResults
    /\ \E i \in DOMAIN getRoom(k).members :
         /\ getRoom(k).members[i][2].vote = Num(5)
         /\ i \in DOMAIN subs[u].last.members
         /\ subs[u].last.members[i].vote = Hidden

\* C2: when nothing is in flight, the last update a connected subscriber
\* received is the visible state of the room that is stored.
SubscriberConverges ==
  \A u \in SubIds :
    Connected(u) /\ Quiet /\ store[subs[u].code] # Null =>
      subs[u].last = getRoomState(getRoom(subs[u].code))

\* C3: no stored room has two members whose names are equal ignoring case,
\* whatever the interleaving of the handlers.
UniqueNames ==
  \A k \in StoreKeys :
    store[k] # Null =>
      \A i, j \in DOMAIN getRoom(k).members :
        i # j => ~SameNameIgnoringCase(getRoom(k).members[i][2].name,
                                       getRoom(k).members[j][2].name)

\* Two joins read the room before either wrote it, both carry the same name
\* ignoring case, and the first has written.
UniqueNames_Witness ==
  \E r1, r2 \in Slots :
    /\ r1 # r2
    /\ reqs[r1].kind = "join" /\ reqs[r2].kind = "join"
    /\ reqs[r1].pc = "bcast" /\ reqs[r2].pc = "ttl"
    /\ ~MapHas(reqs[r2].room.members, reqs[r1].sid)
    /\ SameNameIgnoringCase(MemberOf(reqs[r1].room, reqs[r1].sid).name,
                            MemberOf(reqs[r2].room, reqs[r2].sid).name)

\* C4: a join whose name equals, ignoring case, the name of a member of the
\* room is answered 409 NameConflict and leaves the store as it is.
JoinNameConflict ==
  [][ StartOf("join") =>
        \A c \in CodeParams :
          isValidRoomCode(toUpperCase(c)) /\ store[toUpperCase(c)] # Null =>
            \A n \in NameInputs :
              ( \E i \in DOMAIN getRoom(toUpperCase(c)).members :
                  SameNameIgnoringCase(getRoom(toUpperCase(c)).members[i][2].name, n) ) =>
                \A p \in ServerProcs, k \in Cookies :
                  Join(p, c, k, n) =>
                    /\ resp' = Response("join", 409, "NameConflict", k)
                    /\ store' = store /\ expireAt' = expireAt /\ reqs' = reqs ]_vars

\* A join was answered 409 NameConflict, and the room has its one member.
JoinNameConflict_Witness ==
  /\ resp.op = "join" /\ resp.status = 409 /\ resp.error = "NameConflict"
  /\ \E k \in StoreKeys : store[k] # Null /\ MapSize(getRoom(k).members) = 1

\* The member a[2] is in the room stored under a[1] of the store `st`.
InRoom(st, a) == st[a[1]] # Null /\ a[2] \in MapKeys(RoomIn(st, a[1]).members)

\* C5: a member whose join was answered with success stays in the stored
\* room over every step that is not a removal targeting them, their eviction,
\* or the deletion or expiry of the room (the steps that take them out of
\* `acked`).
JoinedMemberStays ==
  [][ \A a \in acked \cap acked' : InRoom(store, a) => InRoom(store', a) ]_vars

\* C6: the write of a reset turns showResults off and clears every vote, and
\* keeps the member ids and every member's name and lastActivity.
ResetFrame ==
  [][ \A r \in Slots :
        WriteBy(r, "reset") =>
          LET old == RoomIn(store, reqs[r].code)
              new == RoomIn(store', reqs[r].code)
          IN  /\ old # Null /\ new # Null
              /\ new.showResults = FALSE
              /\ new.code = old.code /\ new.createdAt = old.createdAt
              /\ MapKeys(new.members) = MapKeys(old.members)
              /\ MapSize(new.members) = MapSize(old.members)
              /\ \A id \in MapKeys(old.members) :
                   /\ MemberOf(new, id).vote = NoVote
                   /\ MemberOf(new, id).id = MemberOf(old, id).id
                   /\ MemberOf(new, id).name = MemberOf(old, id).name
                   /\ MemberOf(new, id).lastActivity = MemberOf(old, id).lastActivity ]_vars

\* A reset has written a room in which a member had last voted 5: the vote
\* is gone and showResults is off.
ResetFrame_Witness ==
  \E r \in Slots :
    /\ reqs[r].kind = "reset" /\ reqs[r].pc = "bcast"
    /\ store[reqs[r].code] # Null
    /\ ~getRoom(reqs[r].code).showResults
    /\ \E id \in MapKeys(getRoom(reqs[r].code).members) :
         /\ cast[<<reqs[r].code, id>>] = Num(5)
         /\ MemberOf(getRoom(reqs[r].code), id).vote = NoVote

\* C7: a reveal by a member of the room is accepted whatever the votes are;
\* its write turns showResults on and changes nothing else, and it leaves a
\* revealed room as it is.
RevealFrame ==
  [][ /\ StartOf("reveal") =>
           \A p \in ServerProcs, c \in CodeParams, k \in SessionIds :
             ( /\ store[toUpperCase(c)] # Null
               /\ k \in MapKeys(getRoom(toUpperCase(c)).members)
               /\ Reveal(p, c, k) )
             => \E r \in Slots : reqs[r] = Idle /\ reqs'[r].kind = "reveal"
      /\ \A r \in Slots :
           WriteBy(r, "reveal") =>
             LET old == RoomIn(store, reqs[r].code)
                 new == RoomIn(store', reqs[r].code)
             IN  /\ old # Null /\ new # Null
                 /\ new.showResults = TRUE
                 /\ new.code = old.code /\ new.createdAt = old.createdAt
                 /\ new.members = old.members
                 /\ old.showResults => store' = store
      /\ \A r \in Slots :
           reqs[r].kind = "reveal" /\ reqs[r].pc = "bcast" /\ reqs'[r] = Idle =>
             resp' = Response("reveal", 200, "", reqs[r].sid) ]_vars

\* A reveal was answered with success in a room of two members where no vote
\* is cast.
RevealFrame_Witness ==
  /\ resp.op = "reveal" /\ resp.status = 200
  /\ \E k \in StoreKeys :
       /\ store[k] # Null /\ getRoom(k).showResults
       /\ MapSize(getRoom(k).members) = 2
       /\ \A id \in MapKeys(getRoom(k).members) : MemberOf(getRoom(k), id).vote = NoVote

\* C8: when the handlers run one after another and a reveal is answered with
\* success, the visible state has showResults on and lists exactly the
\* members who joined, each with the value of the vote they cast last (null
\* when they cast none); a connected subscriber has received that state.
RevealShowsVotes ==
  \A k \in StoreKeys :
    resp.op = "reveal" /\ resp.status = 200 /\ store[k] # Null =>
      LET state == getRoomState(getRoom(k))
      IN  /\ state.showResults = TRUE
          /\ { state.members[i].id : i \in DOMAIN state.members }
               = { a[2] : a \in { b \in acked : b[1] = k } }
          /\ \A i, j \in DOMAIN state.members :
               state.members[i].id = state.members[j].id => i = j
          /\ \A i \in DOMAIN state.members :
               state.members[i].vote = cast[<<k, state.members[i].id>>]
          /\ \A u \in SubIds :
               Connected(u) /\ subs[u].code = k
                 /\ k \in DOMAIN roomClients[subs[u].proc]
                 /\ u \in roomClients[subs[u].proc][k]
                 => subs[u].last = state

\* Alice ("A") voted 5, Bob ("B") voted 8, and the reveal shows A: 5, B: 8.
RevealShowsVotes_Witness ==
  /\ resp.op = "reveal" /\ resp.status = 200
  /\ \E k \in StoreKeys :
       /\ store[k] # Null
       /\ LET state == getRoomState(getRoom(k))
          IN  /\ Len(state.members) = 2
              /\ \E i, j \in DOMAIN state.members :
                   /\ state.members[i].name = << "A" >> /\ state.members[i].vote = Num(5)
                   /\ state.members[j].name = << "B" >> /\ state.members[j].vote = Num(8)

\* The cleanup reads the room stored under `key`.
ReaperReads(key) == ReaperGet(key) /\ store[key] # Null

\* No member of the room under `key` is left after the eviction.
EmptyAfterEviction(key) ==
  MapSize(RemoveInactive(getRoom(key), reaper.now, INACTIVITY_TIMEOUT).members) = 0

\* The age of the room under `key` in the running cleanup cycle.
RoomAge(key) == reaper.now - getRoom(key).createdAt

\* The step sends the cleanup to the deletion of `key`.
Deleting(key) == reaper'.pc = "del" /\ reaper'.key = key

\* A key leaves the store only by the DEL of the cleanup or by its expiry,
\* and the DEL of the cleanup removes the key.
DeletionSteps ==
  /\ \A k \in StoreKeys :
       store[k] # Null /\ store'[k] = Null =>
         \/ reaper.pc = "del" /\ reaper.key = k /\ reaper' # reaper
         \/ now' # now
  /\ reaper.pc = "del" /\ reaper' # reaper => store'[reaper.key] = Null

\* C9, as claimed: a room left without members is deleted by the cleanup
\* when its age is at least the grace period, and preserved when it is less.
GracePeriodInclusive ==
  [][ \A key \in StoreKeys :
        ReaperReads(key) /\ EmptyAfterEviction(key) =>
          (Deleting(key) <=> RoomAge(key) >= EMPTY_ROOM_GRACE_PERIOD) ]_vars

\* C9, amended: a room left without members is deleted by the cleanup when
\* its age is greater than the grace period, and preserved when its age is
\* less than or equal to it.
GracePeriodExclusive ==
  [][ /\ \A key \in StoreKeys :
           ReaperReads(key) /\ EmptyAfterEviction(key) =>
             (Deleting(key) <=> RoomAge(key) > EMPTY_ROOM_GRACE_PERIOD)
      /\ DeletionSteps ]_vars

\* The cleanup is about to delete a room that lost its only member to the
\* eviction and is twice as old as the grace period.
GracePeriodExclusive_Witness ==
  /\ reaper.pc = "del"
  /\ MapSize(reaper.read.members) = 1 /\ MapSize(reaper.room.members) = 0
  /\ reaper.now - reaper.read.createdAt = 2 * EMPTY_ROOM_GRACE_PERIOD

\* The ids the cleanup takes out of the room under `key` in this step.
EvictedBy(key) ==
  IF reaper'.pc \in { "del", "ttl" } /\ reaper'.key = key
    THEN MapKeys(getRoom(key).members) \ MapKeys(reaper'.room.members)
    ELSE {}

\* The SETEX of the cleanup stores the room without the evicted members.
EvictionWrite ==
  reaper.pc = "setex" /\ reaper' # reaper =>
    /\ store'[reaper.key] = serializeRoom(reaper.room)
    /\ MapKeys(RoomIn(store', reaper.key).members)
         = MapKeys(reaper.read.members) \ Removed(reaper.read, reaper.room)

\* C10, as claimed: the cleanup removes the members whose lastActivity is at
\* least the inactivity timeout old and retains the others.
InactivityInclusive ==
  [][ \A key \in StoreKeys :
        ReaperReads(key) =>
          \A id \in MapKeys(getRoom(key).members) :
            id \in EvictedBy(key)
              <=> reaper.now - MemberOf(getRoom(key), id).lastActivity >= INACTIVITY_TIMEOUT ]_vars

\* C10, amended: the cleanup removes the members whose lastActivity is more
\* than the inactivity timeout old and retains the others, those exactly as
\* old as the timeout included.
InactivityExclusive ==
  [][ /\ \A key \in StoreKeys :
           ReaperReads(key) =>
             \A id \in MapKeys(getRoom(key).members) :
               id \in EvictedBy(key)
                 <=> reaper.now - MemberOf(getRoom(key), id).lastActivity > INACTIVITY_TIMEOUT
      /\ EvictionWrite ]_vars

\* The cleanup has removed a member twice as old as the timeout and retained
\* one exactly as old as the timeout.
InactivityExclusive_Witness ==
  /\ reaper.pc = "ttl"
  /\ \E id \in Removed(reaper.read, reaper.room) :
       reaper.now - MemberOf(reaper.read, id).lastActivity = 2 * INACTIVITY_TIMEOUT
  /\ \E id \in MapKeys(reaper.room.members) :
       reaper.now - MemberOf(reaper.room, id).lastActivity = INACTIVITY_TIMEOUT

\* The sink of stream u is in the set its process keeps for the room.
Registered(u) ==
  /\ subs[u].code \in DOMAIN roomClients[subs[u].proc]
  /\ u \in roomClients[subs[u].proc][subs[u].code]

\* The ids of the members listed in an update.
ListedIds(event) == { event.members[i].id : i \in DOMAIN event.members }

\* C11: once a cleanup cycle that evicted members from a room it kept has
\* ended and nothing is in flight, the last update of a connected,
\* registered subscriber of the room lists no member the stored room lacks.
EvictionPublished ==
  \A u \in SubIds :
    ( /\ Connected(u) /\ Registered(u) /\ Quiet
      /\ subs[u].last # NoEvent /\ store[subs[u].code] # Null ) =>
        ListedIds(subs[u].last) \subseteq MapKeys(getRoom(subs[u].code).members)

\* C12: the sink of every accepted subscription whose client is connected
\* is in the set that the handling process keeps for the room, whichever
\* process created the room.
SubscriberRegistered ==
  \A u \in SubIds :
    subs[u].pc \in { "write", "live" } /\ ~subs[u].aborted => Registered(u)

\* C13: once the callback of a stream whose client has disconnected is past
\* the installation of its abort hook, the stream's sink is in no set of
\* its process.
AbortRemovesSink ==
  \A u \in SubIds :
    subs[u].aborted /\ subs[u].pc \in { "live", "kttl", "ksetex" } => ~Registered(u)

\* The step is a turn of the keep-alive loop of stream u: its sleep is over
\* and it goes on to its write or to its next sleep.
Tick(u) ==
  /\ subs[u].pc = "live" /\ now >= subs[u].wake
  /\ \/ subs'[u].pc = "kttl"
     \/ subs'[u].pc = "live" /\ subs'[u].wake # subs[u].wake

\* C14: a turn of the keep-alive loop that does not find the room in the
\* store is the last one: the callback of the stream ends with it.
StreamEndsWithRoom ==
  [][ \A u \in SubIds :
        Tick(u) /\ getRoom(subs[u].code) = Null => Ended(u) ]_vars

\* The stream u of a member is open, its client is connected, and the last
\* turn of its keep-alive loop (or its opening) was less than
\* KEEPALIVE_SLEEP before the time `t`.
Ticking(u, t) ==
  /\ subs[u].pc \in { "live", "kttl", "ksetex" } /\ ~subs[u].aborted
  /\ subs[u].sid # NoSession
  /\ subs[u].wake > t

\* C15: the cleanup never evicts a member whose stream took its last
\* keep-alive turn less than 30 s before the cleanup's time.
TickingMemberStays ==
  [][ \A key \in StoreKeys, u \in SubIds :
        Ticking(u, reaper.now) /\ subs[u].code = key /\ ReaperReads(key) =>
          subs[u].sid \notin EvictedBy(key) ]_vars

\* C16: a stored room is younger than the room lifetime of two hours.
ExpiresInTime ==
  \A k \in StoreKeys :
    store[k] # Null => now - getRoom(k).createdAt < ROOM_TTL * 1000

\* Handler r's updateRoom issues its SETEX on a key that is in the store.
UpdateOf(r) ==
  /\ reqs[r] # Idle /\ reqs[r].pc = "setex" /\ reqs[r].kind # "create"
  /\ reqs'[r] # Idle /\ reqs'[r].pc = "bcast"
  /\ store[reqs[r].code] # Null

\* C17: updateRoom on a key with remaining expiry, with no time between its
\* TTL read and its SETEX, leaves the key's deadline where it was, up to
\* the whole seconds in which the store reports and takes expiry.
UpdateKeepsExpiry ==
  [][ \A r \in Slots :
        UpdateOf(r) =>
          /\ expireAt'[reqs[r].code] - expireAt[reqs[r].code] < 1000
          /\ expireAt[reqs[r].code] - expireAt'[reqs[r].code] < 1000 ]_vars

\* The room with the vote of member `id` set to `value` and the member's
\* lastActivity set to `t`, and nothing else changed.
VotedBy(room, id, value, t) ==
  [ code |-> room.code, showResults |-> room.showResults, createdAt |-> room.createdAt,
    members |->
      [ i \in DOMAIN room.members |->
          IF room.members[i][1] = id
            THEN << id, [ id |-> id, name |-> room.members[i][2].name,
                          vote |-> value, lastActivity |-> t ] >>
            ELSE room.members[i] ] ]

\* The answer a vote gets for a well-formed code, by the first of the
\* conditions that holds; a vote that passes them all goes on to write the
\* room in which exactly the caller's vote and lastActivity are set.
VoteAnswer(code, k, v) ==
  IF ~(v \in VALID_VOTES \/ v = NoVote)
    THEN resp' = Response("vote", 400, "InvalidVote", k) /\ reqs' = reqs
  ELSE IF store[code] = Null
    THEN resp' = Response("vote", 404, "RoomNotFound", k) /\ reqs' = reqs
  ELSE IF k = NoSession
    THEN resp' = Response("vote", 401, "Unauthenticated", k) /\ reqs' = reqs
  ELSE IF k \notin MapKeys(getRoom(code).members)
    THEN resp' = Response("vote", 403, "NotAMember", k) /\ reqs' = reqs
  ELSE /\ resp' = NoResponse
       /\ \E r \in Slots :
            /\ reqs[r] = Idle
            /\ reqs'[r].kind = "vote" /\ reqs'[r].sid = k /\ reqs'[r].code = code
            /\ reqs'[r].room = VotedBy(getRoom(code), k, v, now)

\* C18: a vote on a well-formed code is answered InvalidVote, RoomNotFound,
\* Unauthenticated or NotAMember in this order of precedence and then
\* leaves the store alone; otherwise it stores the room with exactly the
\* caller's vote set to the value and the caller's lastActivity refreshed.
VoteOutcome ==
  [][ /\ StartOf("vote") =>
           /\ store' = store /\ expireAt' = expireAt
           /\ \A c \in CodeParams :
                isValidRoomCode(toUpperCase(c)) =>
                  \A k \in Cookies, v \in TimedVotes, p \in ServerProcs :
                    (resp' = NoResponse \/ resp'.sid = k) /\ Vote(p, c, k, v) =>
                      VoteAnswer(toUpperCase(c), k, v)
      /\ \A r \in Slots :
           WriteBy(r, "vote") =>
             store'[reqs[r].code] = serializeRoom(reqs[r].room) ]_vars

\* A vote of 5 by one of two members was stored and answered later than the
\* room's creation: the voter's lastActivity is the time of the vote, the
\* other member's entry is the one of the join.
VoteOutcome_Witness ==
  /\ resp.op = "vote" /\ resp.status = 200 /\ now > 0
  /\ \E k \in StoreKeys :
       /\ store[k] # Null
       /\ MapSize(getRoom(k).members) = 2
       /\ MemberOf(getRoom(k), resp.sid).vote = Num(5)
       /\ MemberOf(getRoom(k), resp.sid).lastActivity = now
       /\ \E id \in MapKeys(getRoom(k).members) \ { resp.sid } :
            /\ MemberOf(getRoom(k), id).vote = NoVote
            /\ MemberOf(getRoom(k), id).lastActivity = 0

\* The handlers that only a member of the room may call.
MemberOps == { "reveal", "reset", "remove" }

\* The answer of a member-only handler to a caller it turns away.
CallerAnswer(kind, code, k) ==
  IF store[code] = Null
    THEN resp' = Response(kind, 404, "RoomNotFound", k) /\ reqs' = reqs
  ELSE IF k = NoSession \/ k \notin MapKeys(getRoom(code).members)
    THEN resp' = Response(kind, 403, "NotAMember", k) /\ reqs' = reqs
  ELSE resp'.status \notin { 401, 403 } /\ resp'.error # "RoomNotFound"

\* C19: reveal, reset and remove answer RoomNotFound for an absent room and
\* NotAMember for a caller without a token or with a token of no member,
\* and their start never writes; the write of one that went on is to a room
\* that is stored and has the caller among its members.
MemberOnlyChange ==
  [][ /\ \A kind \in MemberOps :
           StartOf(kind) =>
             /\ store' = store /\ expireAt' = expireAt
             /\ \A c \in CodeParams, k \in Cookies, p \in ServerProcs :
                  ( \/ kind = "reveal" /\ Reveal(p, c, k)
                    \/ kind = "reset" /\ Reset(p, c, k)
                    \/ kind = "remove" /\ \E m \in SessionIds : Remove(p, c, k, m) )
                    => CallerAnswer(kind, toUpperCase(c), k)
      /\ \A r \in Slots, kind \in MemberOps :
           WriteBy(r, kind) =>
             /\ store[reqs[r].code] # Null
             /\ reqs[r].sid \in MapKeys(getRoom(reqs[r].code).members) ]_vars

\* A reveal by the holder of a token that is no member of the stored room,
\* which has a member with a vote, was turned away and the votes stay hidden.
MemberOnlyChange_Witness ==
  /\ resp = Response("reveal", 403, "NotAMember", resp.sid) /\ resp.sid # NoSession
  /\ \E k \in StoreKeys :
       /\ store[k] # Null
       /\ ~getRoom(k).showResults
       /\ resp.sid \notin MapKeys(getRoom(k).members)
       /\ \E id \in MapKeys(getRoom(k).members) : MemberOf(getRoom(k), id).vote # NoVote

\* C20: a remove by a member whose target is no member is answered
\* TargetNotFound and writes nothing; with a target that is a member, the
\* caller or another, it goes on, and its write stores the room without
\* the target's entry and with every other entry and showResults unchanged.
RemoveExact ==
  [][ /\ StartOf("remove") =>
           \A c \in CodeParams, k \in SessionIds :
             store[toUpperCase(c)] # Null /\ k \in MapKeys(getRoom(toUpperCase(c)).members) =>
               \A m \in SessionIds, p \in ServerProcs :
                 Remove(p, c, k, m) =>
                   IF m \in MapKeys(getRoom(toUpperCase(c)).members)
                     THEN /\ resp' = NoResponse
                          /\ \E r \in Slots :
                               /\ reqs[r] = Idle /\ reqs'[r].kind = "remove"
                               /\ reqs'[r].sid = k /\ reqs'[r].arg = m
                     ELSE /\ resp' = Response("remove", 404, "TargetNotFound", k)
                          /\ store' = store /\ expireAt' = expireAt /\ reqs' = reqs
      /\ \A r \in Slots :
           WriteBy(r, "remove") =>
             LET old == getRoom(reqs[r].code)
                 new == deserializeRoom(store'[reqs[r].code])
             IN  /\ MapKeys(new.members) = MapKeys(old.members) \ { reqs[r].arg }
                 /\ reqs[r].arg \in MapKeys(old.members)
                 /\ \A id \in MapKeys(new.members) : MemberOf(new, id) = MemberOf(old, id)
                 /\ new.showResults = old.showResults
                 /\ new.createdAt = old.createdAt /\ new.code = old.code ]_vars

\* A member has removed another member from a room with revealed results:
\* the write is done, the target is gone, and the caller is still there
\* with a vote and with a lastActivity that is not the time of the removal.
RemoveExact_Witness ==
  \E r \in Slots :
    /\ reqs[r] # Idle /\ reqs[r].kind = "remove" /\ reqs[r].pc = "bcast"
    /\ reqs[r].arg # reqs[r].sid
    /\ store[reqs[r].code] # Null
    /\ getRoom(reqs[r].code).showResults
    /\ reqs[r].arg \notin MapKeys(getRoom(reqs[r].code).members)
    /\ reqs[r].sid \in MapKeys(getRoom(reqs[r].code).members)
    /\ MemberOf(getRoom(reqs[r].code), reqs[r].sid).vote = Num(5)
    /\ MemberOf(getRoom(reqs[r].code), reqs[r].sid).lastActivity < now

\* The answer every handler gives for a room that is not in the store.
RoomNotFound(kind, k) ==
  /\ resp' = Response(kind, 404, "RoomNotFound", k)
  /\ store' = store /\ expireAt' = expireAt /\ reqs' = reqs /\ subs' = subs

\* C21: join, subscribe, room info, vote, reveal, reset and remove, called
\* with a well-formed code, a valid name and a valid vote, answer 404
\* RoomNotFound and change nothing when the store has no record for the
\* code, whatever session token comes with the request and whether the room
\* never existed, was deleted by the cleanup or has expired.
GoneIsNotFound ==
  [][ \A c \in RaceCodes :
        Ready /\ store[toUpperCase(c)] = Null =>
          \A p \in ServerProcs, k \in Cookies :
            /\ \A n \in ProcsNames : Join(p, c, k, n) => RoomNotFound("join", k)
            /\ \A u \in SubIds : Subscribe(u, p, c, k) => RoomNotFound("subscribe", k)
            /\ Info(p, c, k) => RoomNotFound("info", k)
            /\ \A v \in { Num(5) } : Vote(p, c, k, v) => RoomNotFound("vote", k)
            /\ Reveal(p, c, k) => RoomNotFound("reveal", k)
            /\ Reset(p, c, k) => RoomNotFound("reset", k)
            /\ \A m \in SessionIds : Remove(p, c, k, m) => RoomNotFound("remove", k) ]_vars

\* The room was created by process p and its record is not in the store
\* although its expiry is still ahead: the cleanup deleted it.
Reaped(p, code) ==
  code \in DOMAIN roomClients[p] /\ store[code] = Null /\ now < expireAt[code]

\* The room was created by process p and its expiry has passed.
Expired(p, code) ==
  code \in DOMAIN roomClients[p] /\ store[code] = Null /\ now >= expireAt[code]

\* A vote that carries a session token is answered RoomNotFound on a room
\* that has expired.
GoneIsNotFound_Witness ==
  /\ resp = Response("vote", 404, "RoomNotFound", resp.sid) /\ resp.sid # NoSession
  /\ \E p \in ServerProcs : Expired(p, CodeA)

\* The cleanup at time t has nothing to do for the room: no member of it is
\* inactive and it is not an empty room past its grace period.
CleanAt(room, t) ==
  /\ RemoveInactive(room, t, INACTIVITY_TIMEOUT) = room
  /\ ~(MapSize(room.members) = 0 /\ PastGrace(room, t))

\* C22: when a cleanup cycle in which a store command failed for one room
\* has ended, every other room in the store is as the cleanup leaves it.
CleanupIsolated ==
  reaper.pc = "idle" /\ reaper.error =>
    \A k \in StoreKeys \ { reaper.key } :
      store[k] # Null => CleanAt(getRoom(k), reaper.now)

CodesUnambiguous ==
  \A k \in StoreKeys :
    store[k] # Null =>
      /\ Len(getRoom(k).code) = 6
      /\ \A i \in 1..Len(getRoom(k).code) :
           getRoom(k).code[i] \in CodeChars \ { "0", "O", "1", "I", "L" }

\* C25: every update that a publish delivers is the state derived from the
\* room record the store holds when the publish runs, after the write that
\* triggered it, and not the copy the publishing handler holds; and every
\* record put in the store is the whole record of the one handler, loop or
\* cleanup cycle that writes it.
BroadcastFresh ==
  [][ /\ \A r \in Slots :
           ( /\ reqs[r] # Idle /\ reqs[r].kind \in Writers /\ reqs[r].pc = "bcast"
             /\ reqs'[r] = Idle ) =>
               \A u \in SubIds :
                 subs'[u] # subs[u] =>
                   /\ store[reqs[r].code] # Null
                   /\ subs'[u] = [subs[u] EXCEPT
                                    !.last = getRoomState(deserializeRoom(store[reqs[r].code]))]
      /\ \A k \in StoreKeys :
           store'[k] # store[k] /\ store'[k] # Null =>
             \/ \E r \in Slots :
                  /\ reqs[r] # Idle /\ reqs[r].code = k /\ reqs[r].pc \in { "create", "ttl", "setex" }
                  /\ store'[k] = serializeRoom(reqs[r].room)
             \/ \E u \in SubIds :
                  /\ subs[u].pc \in { "ttl", "setex", "kttl", "ksetex" } /\ subs[u].code = k
                  /\ store'[k] = serializeRoom(subs[u].room)
             \/ reaper.pc \in { "ttl", "setex" } /\ reaper.key = k
                  /\ store'[k] = serializeRoom(reaper.room) ]_vars

\* A reveal was answered with success, and the update its publish delivered
\* shows the results hidden and the member's vote cast: the record of a vote
\* handler that wrote after the reveal's write and before its publish.
BroadcastFresh_Witness ==
  /\ resp.op = "reveal" /\ resp.status = 200
  /\ \E u \in SubIds :
       /\ Connected(u) /\ Registered(u) /\ subs[u].last # NoEvent
       /\ ~subs[u].last.showResults
       /\ \E i \in DOMAIN subs[u].last.members : subs[u].last.members[i].vote = Hidden

\* C26: a store command of the keep-alive loop's activity refresh that
\* fails leaves the subscription as it is: the stream stays open, its sink
\* stays in the room's set and the loop goes on to its next sleep and
\* ping.
KeepAliveSurvivesFailure ==
  [][ \A u \in SubIds :
        KeepAliveFail(u) =>
          /\ subs'[u].pc = "live" /\ subs'[u].wake = now + KEEPALIVE_SLEEP
          /\ roomClients' = roomClients ]_vars

\* C27: when the cleanup cycle deletes a room, the room the store holds at
\* the moment of the DEL has no members: a member whose join was written
\* after the cycle's read of the room is not deleted with it.
DeleteOnlyEmpty ==
  [][ ReaperDel /\ store[reaper.key] # Null =>
        MapSize(getRoom(reaper.key).members) = 0 ]_vars

\* C28: a room record that is absent from the store comes back only by the
\* SETEX of a create room; no updateRoom of a handler, a keep-alive loop or
\* the cleanup cycle puts a record under a key that holds none.
GoneStaysGone ==
  [][ \A k \in StoreKeys :
        store[k] = Null /\ store'[k] # Null =>
          \E r \in Slots :
            /\ reqs[r] # Idle /\ reqs[r].kind = "create" /\ reqs[r].pc = "create"
            /\ reqs[r].code = k /\ reqs'[r].pc = "stat" ]_vars

\* C29: a member id that a removal answered with success or a cleanup cycle
\* took out of a room is not in the stored room again unless the session
\* has joined anew: every id in a stored room is one whose join was
\* answered and that was not removed or evicted since, or one whose join
\* or removal is written and about to be answered.
RemovedStaysOut ==
  \A k \in StoreKeys, id \in SessionIds :
    store[k] # Null /\ MapHas(getRoom(k).members, id) =>
      \/ << k, id >> \in acked
      \/ \E r \in Slots :
           /\ reqs[r] # Idle /\ reqs[r].code = k /\ reqs[r].pc = "bcast"
           /\ \/ reqs[r].kind = "join" /\ reqs[r].sid = id
              \/ reqs[r].kind = "remove" /\ reqs[r].arg = id

\* C30: the write of a vote, a reveal or a reset replaces the stored room by
\* the writing handler's whole record, whatever the store holds by then: no
\* version is compared and nothing is merged, so of two concurrent handlers
\* the one that writes last wins.
LastWriterWins ==
  [][ \A r \in Slots :
        ( /\ reqs[r] # Idle /\ reqs[r].kind \in { "vote", "reveal", "reset" }
          /\ reqs[r].pc \in { "ttl", "setex" }
          /\ reqs'[r] # Idle /\ reqs'[r].pc = "bcast" ) =>
            /\ store' = [store EXCEPT ![reqs[r].code] = serializeRoom(reqs[r].room)]
            /\ reqs'[r].room = reqs[r].room ]_vars

\* Both handlers have completed: the member's vote of 5 was answered with
\* success and no reset was answered since, and the stored room, written
\* last by a reveal that had read the room before the vote was written,
\* shows the results and holds no vote of the member.
LastWriterWins_Witness ==
  /\ Quiet
  /\ \E k \in StoreKeys, id \in SessionIds :
       /\ store[k] # Null /\ MapHas(getRoom(k).members, id)
       /\ cast[<< k, id >>] = Num(5)
       /\ getRoom(k).showResults
       /\ MemberOf(getRoom(k), id).vote = NoVote

\* C31: the write of a cleanup cycle changes the room the store holds at
\* that moment only by taking out members whose inactivity exceeds the
\* timeout: code, createdAt, showResults and the entry of every member
\* that is retained are as they were stored just before the write; and the
\* cycle's read of a room changes nothing in the store.
CleanupFrame ==
  [][ /\ ReaperSetex /\ store[reaper.key] # Null =>
           LET old == RoomIn(store, reaper.key)
               new == RoomIn(store', reaper.key)
           IN  /\ new.code = old.code /\ new.createdAt = old.createdAt
               /\ new.showResults = old.showResults
               /\ new.members =
                    SelectSeq(old.members,
                              LAMBDA e : e[1] \in MapKeys(new.members))
               /\ \A id \in MapKeys(old.members) \ MapKeys(new.members) :
                    IsInactive(MemberOf(old, id), reaper.now, INACTIVITY_TIMEOUT)
               /\ MapKeys(old.members) # MapKeys(new.members)
      /\ \A key \in StoreKeys :
           ReaperGet(key) => store' = store /\ expireAt' = expireAt ]_vars

\* C32: a step that answers with an error leaves every stored room, every
\* expiry, every sink set and every subscriber's last event as they were
\* and starts no write; and a join or a vote whose code, name or value is
\* malformed is answered InvalidCode, InvalidName or InvalidVote whatever
\* the store holds.
ErrorsChangeNothing ==
  [][ /\ resp' # NoResponse /\ resp'.status >= 400 =>
           /\ store' = store /\ expireAt' = expireAt
           /\ subs' = subs /\ roomClients' = roomClients /\ reqs' = reqs
      /\ StartOf("join") =>
           \A c \in CodeParams, n \in NameInputs :
             ~isValidRoomCode(toUpperCase(c)) \/ ~isValidName(n) =>
               \A k \in Cookies, p \in ServerProcs :
                 (resp' = NoResponse \/ resp'.sid = k) /\ Join(p, c, k, n) =>
                   resp' = Response("join", 400,
                                    IF ~isValidRoomCode(toUpperCase(c))
                                      THEN "InvalidCode" ELSE "InvalidName", k)
      /\ StartOf("vote") =>
           \A c \in CodeParams, v \in VoteInputs :
             ~isValidRoomCode(toUpperCase(c)) \/ ~(v \in VALID_VOTES \cup { NoVote }) =>
               \A k \in Cookies, p \in ServerProcs :
                 (resp' = NoResponse \/ resp'.sid = k) /\ Vote(p, c, k, v) =>
                   resp' = Response("vote", 400,
                                    IF ~isValidRoomCode(toUpperCase(c))
                                      THEN "InvalidCode" ELSE "InvalidVote", k) ]_vars

\* A join under a name that is taken was answered NameConflict while a
\* subscriber of the room is connected: the subscriber's last event lists
\* the one member the stored room has.
ErrorsChangeNothing_Witness ==
  /\ resp.op = "join" /\ resp.error = "NameConflict"
  /\ \E u \in SubIds :
       /\ Connected(u) /\ Registered(u) /\ subs[u].last # NoEvent
       /\ store[subs[u].code] # Null
       /\ MapSize(getRoom(subs[u].code).members) = 1
       /\ subs[u].last = getRoomState(getRoom(subs[u].code))

\* C33: an accepted subscription receives no event and has no sink in any
\* set before its first event; the first event is an update with the
\* visible state of the room as the handler read it, written in the step
\* that adds the sink, so that no published update precedes it.
FirstEventIsState ==
  /\ [](\A u \in SubIds :
          subs[u].pc \in { "ttl", "setex", "open" } =>
            /\ subs[u].last = NoEvent
            /\ \A p \in Procs : \A c \in DOMAIN roomClients[p] : u \notin roomClients[p][c])
  /\ [][ \A u \in SubIds :
           /\ subs[u] = Closed /\ subs'[u].pc \in { "ttl", "open" } =>
                /\ store[subs'[u].code] # Null
                /\ getRoomState(subs'[u].room) = getRoomState(getRoom(subs'[u].code))
           /\ subs[u].pc \in { "ttl", "setex" } /\ subs'[u].pc \in { "setex", "open" } =>
                subs'[u].room = subs[u].room
           /\ subs[u].pc = "open" /\ subs'[u] # subs[u] =>
                /\ subs'[u].pc = "write"
                /\ subs'[u].last = getRoomState(subs[u].room)
                /\ resp' = Response("subscribe", 200, "", subs[u].sid) ]_vars

\* A subscription to a room in a running round has just received its first
\* event: the results are not shown and the event shows the vote of a member
\* other than the subscriber as hidden.
FirstEventIsState_Witness ==
  /\ resp.op = "subscribe" /\ resp.status = 200
  /\ \E u \in SubIds :
       /\ subs[u].pc = "write" /\ subs[u].last # NoEvent
       /\ ~subs[u].last.showResults
       /\ \E i \in DOMAIN subs[u].last.members :
            /\ subs[u].last.members[i].vote = Hidden
            /\ subs[u].last.members[i].id # subs[u].sid

\* C34: a join that passes its checks writes the room it read with exactly
\* one entry for the member id it returns, holding the given name, no vote
\* and lastActivity = now; the id is the session the request carried, or an
\* id that no member of the room has when it carried none; the entries of
\* the other members, their order, showResults, code and createdAt are as
\* they were.
JoinOutcome ==
  [][ /\ StartOf("join") /\ resp' = NoResponse =>
           \A c \in CodeParams, k \in Cookies, n \in TimedNames, p \in ServerProcs :
             Join(p, c, k, n) =>
               \E r \in Slots :
                 /\ reqs[r] = Idle /\ reqs'[r].kind = "join"
                 /\ LET old == getRoom(toUpperCase(c))
                        new == reqs'[r].room
                        id == reqs'[r].sid
                    IN  /\ isValidRoomCode(toUpperCase(c)) /\ Len(n) \in 1..50
                        /\ k # NoSession => id = k
                        /\ k = NoSession => id # NoSession /\ id \notin MapKeys(old.members)
                        /\ Cardinality({ i \in DOMAIN new.members : new.members[i][1] = id }) = 1
                        /\ MemberOf(new, id) = Member(id, n, NoVote, now)
                        /\ MapKeys(new.members) = MapKeys(old.members) \cup { id }
                        /\ SelectSeq(new.members, LAMBDA e : e[1] # id)
                             = SelectSeq(old.members, LAMBDA e : e[1] # id)
                        /\ new.showResults = old.showResults
                        /\ new.code = old.code /\ new.createdAt = old.createdAt
      /\ \A r \in Slots :
           WriteBy(r, "join") =>
             /\ RoomIn(store', reqs[r].code) = reqs[r].room
             /\ reqs'[r].sid = reqs[r].sid ]_vars

\* A join without a session was answered with success later than the
\* room's creation, in a room whose results are shown: the new member has
\* no vote and lastActivity = now, and the member who was there keeps the
\* vote of 5 and the lastActivity of the vote.
JoinOutcome_Witness ==
  /\ resp.op = "join" /\ resp.status = 200 /\ now > 0
  /\ \E k \in StoreKeys :
       /\ store[k] # Null /\ getRoom(k).showResults
       /\ MapSize(getRoom(k).members) = 2
       /\ MemberOf(getRoom(k), resp.sid) = Member(resp.sid, << "B" >>, NoVote, now)
       /\ \E id \in MapKeys(getRoom(k).members) \ { resp.sid } :
            /\ MemberOf(getRoom(k), id).vote = Num(5)
            /\ MemberOf(getRoom(k), id).lastActivity < now

\* C35: a cleanup cycle that runs more than the inactivity timeout after a
\* member's last action and after the disconnect of the member's client
\* evicts the member.  In SpecLeave every join, every opening of a stream
\* and every disconnect is at time 0: a cycle later than the timeout evicts
\* every member that has no stream with a connected client.
DisconnectedEvicted ==
  [][ \A key \in StoreKeys :
        ReaperReads(key) /\ reaper.now > INACTIVITY_TIMEOUT =>
          \A id \in MapKeys(getRoom(key).members) :
            (\A u \in SubIds :
               ~(subs[u].pc \in OpenPcs /\ ~subs[u].aborted /\ subs[u].sid = id)) =>
              id \in EvictedBy(key) ]_vars

\* The stream record without the last event it received.
Callback(s) == IF s = Closed THEN s ELSE [s EXCEPT !.last = NoEvent]

\* The room codes of the handlers and stream callbacks that take the step.
ActingCodes ==
  { reqs[r].code : r \in { x \in Slots : reqs[x] # Idle /\ reqs'[x] # reqs[x] } }
    \cup { reqs'[r].code : r \in { x \in Slots : reqs'[x] # Idle /\ reqs'[x] # reqs[x] } }
    \cup { subs[u].code :
             u \in { x \in SubIds : subs[x] # Closed /\ Callback(subs'[x]) # Callback(subs[x]) } }
    \cup { subs'[u].code :
             u \in { x \in SubIds : subs'[x] # Closed /\ Callback(subs'[x]) # Callback(subs[x]) } }

\* C36: a step of a handler, a stream callback or a publish for one room
\* code leaves the record, the expiry and the sink set of every other room
\* as they were and delivers no event to a subscriber of another room.
OtherRoomsUntouched ==
  [][ now' = now /\ reaper' = reaper =>
        \A k \in StoreKeys \ ActingCodes :
          /\ store'[k] = store[k] /\ expireAt'[k] = expireAt[k]
          /\ \A p \in Procs :
               /\ (k \in DOMAIN roomClients'[p]) = (k \in DOMAIN roomClients[p])
               /\ k \in DOMAIN roomClients[p] => roomClients'[p][k] = roomClients[p][k]
          /\ \A u \in SubIds :
               subs[u] # Closed /\ subs[u].code = k => subs'[u] = subs[u] ]_vars

\* A vote in one room was answered with success while a subscriber of the
\* other room is connected: the subscriber's last event is the state of its
\* own room, in which the voter, a member of both rooms, has no vote.
OtherRoomsUntouched_Witness ==
  /\ resp.op = "vote" /\ resp.status = 200
  /\ \E u \in SubIds, k \in StoreKeys :
       /\ Connected(u) /\ Registered(u) /\ subs[u].code # k
       /\ store[k] # Null /\ store[subs[u].code] # Null
       /\ MapHas(getRoom(k).members, resp.sid)
       /\ MemberOf(getRoom(k), resp.sid).vote = Num(5)
       /\ MapHas(getRoom(subs[u].code).members, resp.sid)
       /\ MemberOf(getRoom(subs[u].code), resp.sid).vote = NoVote
       /\ subs[u].last = getRoomState(getRoom(subs[u].code))

(***************************************************************************)
(* C37: for every room value, deserializeRoom(serializeRoom(room)) equals  *)
(* the room: same code, showResults and createdAt, and a member mapping    *)
(* with the same ids in the same order, each with the same name, vote and  *)
(* lastActivity.  Checked for every room a handler holds before its write  *)
(* and for every room the store may hold at time 0.                        *)
(***************************************************************************)
SameRoom(a, b) ==
  /\ a.code = b.code
  /\ a.showResults = b.showResults
  /\ a.createdAt = b.createdAt
  /\ Len(a.members) = Len(b.members)
  /\ \A i \in DOMAIN a.members :
       /\ a.members[i][1] = b.members[i][1]
       /\ a.members[i][2].id = b.members[i][2].id
       /\ a.members[i][2].name = b.members[i][2].name
       /\ a.members[i][2].vote = b.members[i][2].vote
       /\ a.members[i][2].lastActivity = b.members[i][2].lastActivity

ListedVotes ==
  { Num(n) : n \in { 1, 2, 3, 5, 8, 13, 21, 34, 55, 89 } }
    \cup { Str("?"), Str("coffee"), NoVote }

CreateNeverReplaces ==
  [][ \A r \in Slots :
        /\ ( /\ (reqs[r] = Idle \/ reqs[r].pc = "gen")
              /\ reqs'[r] # Idle /\ reqs'[r].kind = "create" /\ reqs'[r].pc = "create"
              => /\ store[reqs'[r].code] = Null
                 /\ reqs'[r].room.code = reqs'[r].code
                 /\ reqs'[r].room.members = << >>
                 /\ reqs'[r].room.showResults = FALSE
                 /\ reqs'[r].room.createdAt = now )
        /\ ( /\ reqs[r] # Idle /\ reqs[r].kind = "create" /\ reqs[r].pc = "create"
              /\ reqs'[r] # Idle /\ reqs'[r].pc = "stat"
              => /\ store[reqs[r].code] = Null
                 /\ getRoom(reqs[r].code)' = reqs[r].room
                 /\ expireAt'[reqs[r].code] = now + ROOM_TTL * 1000 ) ]_vars

(***************************************************************************)
(* C40: in every persisted room each entry of the member mapping is stored *)
(* under its own id and no id has two entries; a join by a session that is *)
(* a member of the room replaces that member's entry, at its position,     *)
(* with the new name and no vote, and adds none.                           *)
(***************************************************************************)
MembersKeyedById ==
  /\ [](\A k \in StoreKeys :
          store[k] # Null =>
            \A i, j \in DOMAIN store[k].members :
              /\ store[k].members[i][1] = store[k].members[i][2].id
              /\ i # j => store[k].members[i][1] # store[k].members[j][1])
  /\ [][ StartOf("join") /\ resp' = NoResponse =>
           \A r \in Slots :
             reqs[r] = Idle /\ reqs'[r] # Idle /\ reqs'[r].kind = "join" =>
               LET old == store[reqs'[r].code].members
                   new == reqs'[r].room.members
                   id == reqs'[r].sid
               IN  (\E i \in DOMAIN old : old[i][1] = id) =>
                     /\ Len(new) = Len(old)
                     /\ \A i \in DOMAIN old :
                          IF old[i][1] = id
                            THEN /\ new[i][1] = id
                                 /\ new[i][2].id = id
                                 /\ new[i][2].vote = NoVote
                                 /\ new[i][2].lastActivity = now
                                 /\ toLowerCase(new[i][2].name) # toLowerCase(old[i][2].name)
                            ELSE new[i] = old[i] ]_vars

\* The first of two members, whose stored name is A and whose stored vote
\* is 5, joins again: the handler holds the room with two entries, the
\* first one under the same id with the name B and no vote.
MembersKeyedById_Witness ==
  \E r \in Slots, k \in StoreKeys :
    /\ reqs[r] # Idle /\ reqs[r].kind = "join" /\ reqs[r].pc = "ttl" /\ reqs[r].code = k
    /\ store[k] # Null /\ Len(store[k].members) = 2
    /\ store[k].members[1][1] = reqs[r].sid
    /\ store[k].members[1][2].vote = Num(5)
    /\ store[k].members[1][2].name = << "A" >>
    /\ Len(reqs[r].room.members) = 2
    /\ reqs[r].room.members[1] = << reqs[r].sid, Member(reqs[r].sid, << "B" >>, NoVote, now) >>

====
